---------------------------- MODULE Spec2Model ----------------------------
(***************************************************************************)
(* A model of the server session core of russh: the Session::run event     *)
(* loop (server/session.rs), the channel handles that post to the session  *)
(* mailbox (channels/mod.rs) and the wire buffer (sshbuffer.rs).           *)
(*                                                                         *)
(* The Encrypted state (channel table, pending data, flush), the inbound   *)
(* packet handler reply() and the io::ChannelTx writer are not part of the *)
(* three files; they are modelled after the specification and marked so.   *)
(***************************************************************************)
EXTENDS Integers, Sequences, FiniteSets, TLC

(***************************************************************************)
(* Bounds of the model.                                                    *)
(***************************************************************************)
\* number of data / window-adjust operations of one flow-control run
MaxOps == 3
\* inbound reads of one run of the session loop
MaxReads == 2
\* messages one user task posts
MaxMsgs == 2
\* capacity of the session mailbox
MailboxCap == 2
\* limits.rekey_write_limit, in bytes
RekeyWriteLimit == 3
\* number of channel ids: allocation wraps around after the last one
IdSpace == 2
\* tasks that open a channel through a Handle
MaxHandles == 3
\* inbound reads of one run with channels opened through Handles
MaxInbound == 5
\* config.connection_timeout, in ticks of the clock
ConnectionTimeout == 2
\* tasks that own a Channel and may leave its inbound queue unread
MaxConsumers == 2
\* chunks the stream side of a ChannelStream writes
MaxChunks == 2
\* calls of request_success / request_failure for one global request
MaxCalls == 2

(***************************************************************************)
(* Program constants.                                                      *)
(***************************************************************************)
\* The largest window size.  The program's windows are u32; TLC's integers
\* end at 2^31 - 1, so the word is modelled one bit narrower and every sum
\* is formed without leaving that range.
WindowMax == 2147483647
\* message numbers (RFC 4253 / RFC 4254), as crate::msg names them
DISCONNECT == 1
IGNORE == 2
KEXINIT == 20
NEWKEYS == 21
CHANNEL_OPEN == 90
CHANNEL_OPEN_CONFIRMATION == 91
CHANNEL_OPEN_FAILURE == 92
CHANNEL_WINDOW_ADJUST == 93
CHANNEL_DATA == 94
CHANNEL_EXTENDED_DATA == 95
CHANNEL_EOF == 96
CHANNEL_CLOSE == 97
CHANNEL_REQUEST == 98
GLOBAL_REQUEST == 80
REQUEST_SUCCESS == 81
REQUEST_FAILURE == 82
CHANNEL_SUCCESS == 99
CHANNEL_FAILURE == 100

Min(a, b) == IF a <= b THEN a ELSE b

\* u32::saturating_add at the modelled width
saturating_add(a, b) == IF b >= WindowMax - a THEN WindowMax ELSE a + b

(***************************************************************************)
(* Wrapping<u32>, the type of SSHBuffer::seqn.  A u32 does not fit TLC's    *)
(* integers, so the word is kept as its two 16-bit halves; adding one       *)
(* carries from the low half to the high half and wraps from 2^32 - 1 to 0. *)
(***************************************************************************)
Half == 65536

Wrapping(n) == [hi |-> n \div Half, lo |-> n % Half]

wrapping_inc(w) ==
    IF w.lo < Half - 1 THEN [w EXCEPT !.lo = @ + 1]
    ELSE [hi |-> (w.hi + 1) % Half, lo |-> 0]

RECURSIVE wrapping_add(_, _)
wrapping_add(w, k) == IF k = 0 THEN w ELSE wrapping_add(wrapping_inc(w), k - 1)

\* SSHBuffer::new
SSHBuffer_new == [buffer |-> << >>, bytes |-> 0, seqn |-> Wrapping(0)]

\* SSHBuffer::send_ssh_id: the identification line joins the buffer
send_ssh_id(b, id) == [b EXCEPT !.buffer = Append(@, id)]

\* the absent value of an Option
None == "None"

\* EncryptedState: the states in which channels may be opened, and one of
\* the states before them
Authenticated == "Authenticated"
InitCompression == "InitCompression"
WaitingAuthRequest == "WaitingAuthRequest"

\* the stamp of a packet: enc.rekey and the key exchanges completed
Stamp(rk, era) == [rekey |-> rk, era |-> era]

VARIABLES
    encrypted,      \* common.encrypted is Some(..)
    state,          \* enc.state: how far the connection has got
    rekey,          \* enc.rekey: None, or the kex state of a running rekey
    exchange,       \* enc.exchange is Some(..)
    wants_reply,    \* common.wants_reply: a global request waits for its reply
    channels,       \* enc.channels: live ChannelId -> channel record
    write,          \* enc.write: packets queued for sealing, oldest first
    ops,            \* flow-control runs: operations applied so far
    write_buffer,   \* common.write_buffer: sealed packets and byte counter
    pending_reads,  \* Session::pending_reads: packets read during a rekey
    kex_done,       \* rekeys completed so far
    drain_n,        \* the last read of the final drain: None, "packet", "eof"
    receiver,       \* Session::receiver: the bounded session mailbox
    pc,             \* where Session::run is: select, shutdown, drain, done
    result,         \* what run returned: None, "Ok" or "Err"
    exit_by,        \* which arm left the loop
    writer_shut,    \* stream_write.shutdown() has completed
    wire,           \* packets handed to the transport, oldest first
    reads,          \* inbound reads completed so far
    replies,        \* calls of reply(), the inbound handler
    posted,         \* per user task: messages it has put in the mailbox
    handled,        \* per user task: its messages the loop has handled
    window_size,    \* Channel::window_size: the shared window-size cell
    tx,             \* the data() call of a Channel: its io::ChannelTx
    chunks,         \* chunks that call has posted, oldest first
    adjusted,       \* credit WindowAdjusted updates have added to the cell
    sending,        \* a send_msg call of another task: idle, waiting, cancelled
    session_channels, \* Session::channels: ChannelId -> reply sender
    handles,        \* per opening task: its Channel id and inbound queue
    last_channel_id, \* the id new_channel allocated last
    clock,          \* connection_timeout and the timer of the iteration
    buffer,         \* the SSHBuffer of the read future of run
    cipher          \* the opening key: the session's slot and run's local

encVars ==
    <<encrypted, state, rekey, exchange, wants_reply, channels, write,
      write_buffer, pending_reads, kex_done>>
loopVars ==
    <<pc, result, exit_by, writer_shut, wire, reads, replies, drain_n, clock,
      buffer, cipher>>
boxVars == <<receiver, posted, handled>>
txVars == <<window_size, tx, chunks, adjusted, sending>>
chanVars == <<session_channels, handles, last_channel_id>>
vars == <<encVars, loopVars, boxVars, ops, txVars, chanVars>>

(***************************************************************************)
(* Channel records (specification section 3).  pending_data holds, per     *)
(* queued buffer, the number of bytes still to send and its extended code  *)
(* (an Option<u32>: << >> for plain data, <<code>> for extended data).     *)
(* The table enc.channels is a function whose domain is the live ids.      *)
(***************************************************************************)
NewChannelRecord(recipient, window, maxpkt, conf) ==
    [ recipient_channel |-> recipient,
      sender_window_size |-> window,
      sender_maximum_packet_size |-> maxpkt,
      confirmed |-> conf,
      wants_reply |-> FALSE,
      pending_data |-> << >> ]

(***************************************************************************)
(* Session::writable_packet_size: min(sender_window_size,                  *)
(* sender_maximum_packet_size) of a channel of the table, 0 when there is  *)
(* no encrypted state or no such channel.                                  *)
(***************************************************************************)
writable_packet_size_nowindow(enc, chs, channel) ==
    IF enc /\ channel \in DOMAIN chs
    THEN chs[channel].sender_maximum_packet_size
    ELSE 0

writable_packet_size(enc, chs, channel) ==
    IF enc /\ channel \in DOMAIN chs
    THEN Min(chs[channel].sender_window_size,
             chs[channel].sender_maximum_packet_size)
    ELSE 0

(***************************************************************************)
(* A data packet as queued in enc.write.  win, maxp and at are not on the  *)
(* wire: they record sender_window_size just before the packet was         *)
(* emitted, the channel's sender_maximum_packet_size, and a stamp of the   *)
(* moment: enc.rekey and the number of key exchanges completed so far.     *)
(***************************************************************************)
DataPacket(rec, ext, n, at) ==
    [ op |-> IF ext = << >> THEN CHANNEL_DATA ELSE CHANNEL_EXTENDED_DATA,
      ch |-> rec.recipient_channel,
      len |-> n,
      win |-> rec.sender_window_size,
      maxp |-> rec.sender_maximum_packet_size,
      at |-> at ]

(***************************************************************************)
(* Draining one channel's pending queue (Encrypted::flush_pending): send   *)
(* the head buffer in packets of at most writable_packet_size bytes until  *)
(* the queue is empty or the window is used up.  st is a result record:     *)
(* the table, the packets emitted, the bytes sent, and whether the call     *)
(* panicked.                                                               *)
(***************************************************************************)
Result(chs, out, sent, panic) ==
    [chs |-> chs, out |-> out, sent |-> sent, panic |-> panic]

RECURSIVE Drain(_, _, _)
Drain(st, channel, at) ==
    LET rec == st.chs[channel]
    IN  IF rec.pending_data = << >> THEN st
        ELSE
        LET head == Head(rec.pending_data)
            k == Min(head.len, writable_packet_size(TRUE, st.chs, channel))
        IN  IF head.len = 0
            THEN Drain([st EXCEPT !.chs[channel].pending_data = Tail(@)],
                       channel, at)
            ELSE IF k = 0 THEN st
            ELSE Drain(
                Result([st.chs EXCEPT
                          ![channel].sender_window_size = @ - k,
                          ![channel].pending_data =
                              IF k = head.len THEN Tail(@)
                              ELSE <<[head EXCEPT !.len = @ - k]>> \o Tail(@)],
                       Append(st.out, DataPacket(rec, head.ext, k, at)),
                       st.sent + k, FALSE),
                channel, at)

\* Encrypted::flush_pending(channel)
enc_flush_pending(chs, channel, at) ==
    IF channel \notin DOMAIN chs
    THEN Result(chs, << >>, 0, FALSE)
    ELSE Drain(Result(chs, << >>, 0, FALSE), channel, at)

\* Encrypted::data / Encrypted::extended_data: queue the buffer, then drain;
\* the channel must be confirmed (a panic check, specification section 3)
enc_data(chs, channel, ext, n, at) ==
    IF channel \notin DOMAIN chs
    THEN Result(chs, << >>, 0, FALSE)
    ELSE IF ~chs[channel].confirmed
    THEN Result(chs, << >>, 0, TRUE)
    ELSE enc_flush_pending(
            [chs EXCEPT ![channel].pending_data =
                            Append(@, [len |-> n, ext |-> ext])],
            channel, at)

(***************************************************************************)
(* Session::flush_pending and Session::data / Session::extended_data: the  *)
(* session's entry points, which go to the encrypted state when there is   *)
(* one.  Session::data is unreachable!() without one.                      *)
(***************************************************************************)
flush_pending_noop(enc, chs, channel, at) == Result(chs, << >>, 0, FALSE)

flush_pending(enc, chs, channel, at) ==
    IF enc THEN enc_flush_pending(chs, channel, at)
    ELSE Result(chs, << >>, 0, FALSE)

data(enc, chs, channel, ext, n, at) ==
    IF enc THEN enc_data(chs, channel, ext, n, at)
    ELSE Result(chs, << >>, 0, TRUE)

(***************************************************************************)
(* The peer's CHANNEL_WINDOW_ADJUST as the inbound handler treats it: a    *)
(* saturating add to sender_window_size, then flush_pending at once.       *)
(***************************************************************************)
\* CommonSession::byte: a packet of the opcode and the recipient id, for a
\* channel of the table
byte(enc, chs, channel, b, at) ==
    IF enc /\ channel \in DOMAIN chs
    THEN Result(chs, <<[op |-> b, ch |-> chs[channel].recipient_channel,
                        at |-> at]>>, 0, FALSE)
    ELSE Result(chs, << >>, 0, FALSE)

(***************************************************************************)
(* Session::channel_success / channel_failure: for a channel of the table, *)
(* assert that it is confirmed, then answer the request if it asked for a  *)
(* reply.  Session::xon_xoff_request / exit_status_request /               *)
(* exit_signal_request: assert, then a CHANNEL_REQUEST of that name.       *)
(* Without an encrypted state or without the channel nothing happens.      *)
(***************************************************************************)
channel_reply_keep(enc, chs, channel, b, at) ==
    IF enc /\ channel \in DOMAIN chs
    THEN IF ~chs[channel].confirmed
         THEN Result(chs, << >>, 0, TRUE)
         ELSE IF chs[channel].wants_reply
         THEN Result(chs,
                     <<[op |-> b, ch |-> chs[channel].recipient_channel,
                        at |-> at]>>, 0, FALSE)
         ELSE Result(chs, << >>, 0, FALSE)
    ELSE Result(chs, << >>, 0, FALSE)

channel_reply(enc, chs, channel, b, at) ==
    IF enc /\ channel \in DOMAIN chs
    THEN IF ~chs[channel].confirmed
         THEN Result(chs, << >>, 0, TRUE)
         ELSE IF chs[channel].wants_reply
         THEN Result([chs EXCEPT ![channel].wants_reply = FALSE],
                     <<[op |-> b, ch |-> chs[channel].recipient_channel,
                        at |-> at]>>, 0, FALSE)
         ELSE Result(chs, << >>, 0, FALSE)
    ELSE Result(chs, << >>, 0, FALSE)

channel_request_unchecked(enc, chs, channel, name, at) ==
    IF enc /\ channel \in DOMAIN chs
    THEN Result(chs, <<[op |-> CHANNEL_REQUEST,
                        ch |-> chs[channel].recipient_channel,
                        name |-> name, at |-> at]>>, 0, FALSE)
    ELSE Result(chs, << >>, 0, FALSE)

channel_request(enc, chs, channel, name, at) ==
    IF enc /\ channel \in DOMAIN chs
    THEN IF ~chs[channel].confirmed
         THEN Result(chs, << >>, 0, TRUE)
         ELSE Result(chs, <<[op |-> CHANNEL_REQUEST,
                             ch |-> chs[channel].recipient_channel,
                             name |-> name, at |-> at]>>, 0, FALSE)
    ELSE Result(chs, << >>, 0, FALSE)

window_adjust(enc, chs, channel, amount, at) ==
    IF ~enc \/ channel \notin DOMAIN chs
    THEN Result(chs, << >>, 0, FALSE)
    ELSE flush_pending(enc,
            [chs EXCEPT ![channel].sender_window_size =
                            saturating_add(@, amount)],
            channel, at)

(***************************************************************************)
(* Flow control on one confirmed channel: the inputs are the channel's     *)
(* window and packet limit, and a short run of data writes and window      *)
(* adjustments.  ops records the run: the opening window, then each        *)
(* operation with its argument.                                            *)
(***************************************************************************)
FlowWindows == {0, 8192, 2097152}
FlowMaxPackets == {4096, 32768}
FlowLens == {0, 1696, 20000, 100000}
FlowAdjusts == {16384, WindowMax}

Tasks == {1, 2}

\* the parts of the state a flow-control run leaves alone
RunIdle ==
    /\ wants_reply = FALSE
    /\ write_buffer.buffer = << >>
    /\ write_buffer.bytes = 0
    /\ pending_reads = << >>
    /\ kex_done = 0
    /\ drain_n = None
    /\ receiver = << >>
    /\ pc = "select"
    /\ result = None
    /\ exit_by = None
    /\ writer_shut = FALSE
    /\ wire = << >>
    /\ reads = 0
    /\ replies = 0

LoopIdle ==
    /\ RunIdle
    /\ posted = [t \in Tasks |-> 0]
    /\ handled = [t \in Tasks |-> 0]

\* the opening keys: the placeholder clear::Key, and the key of the
\* key exchange number era
clear_Key == "clear::Key"
Key(era) == <<"key", era>>

\* std::mem::swap(&mut opening_cipher, &mut self.common.cipher.remote_to_local)
swap(c) ==
    [remote_to_local |-> c.opening_cipher, opening_cipher |-> c.remote_to_local]

\* a new connection: both buffers as SSHBuffer::new makes them; run has put
\* the placeholder in the session's slot and given the key to the read
NewBuffers ==
    /\ write_buffer = SSHBuffer_new
    /\ buffer = SSHBuffer_new
    /\ cipher = swap([remote_to_local |-> Key(0), opening_cipher |-> clear_Key])

\* time is left out: connection_timeout is 0 ticks, so the timer arm of the
\* select is ready in every iteration
NoClock == clock = [delay |-> 0, sleep |-> 0, idle |-> 0]

\* no data() call, no send_msg call
TxIdle ==
    /\ window_size = 0
    /\ tx = [pc |-> "idle"]
    /\ chunks = << >>
    /\ adjusted = 0
    /\ sending = "idle"

\* no channel opened through a Handle
ChanIdle ==
    /\ session_channels = << >>
    /\ handles = << >>
    /\ last_channel_id = 0

FlowInit ==
    /\ NewBuffers
    /\ LoopIdle
    /\ NoClock
    /\ state = Authenticated
    /\ TxIdle
    /\ ChanIdle
    /\ encrypted = TRUE
    /\ rekey = None
    /\ exchange = TRUE
    /\ write = << >>
    /\ \E w \in FlowWindows, m \in FlowMaxPackets :
          /\ channels = (0 :> NewChannelRecord(0, w, m, TRUE))
          /\ ops = <<[op |-> "open", n |-> w]>>

FlowApply(r, entry) ==
    /\ channels' = r.chs
    /\ write' = write \o r.out
    /\ ops' = Append(ops, entry)
    /\ UNCHANGED <<encrypted, state, rekey, exchange, wants_reply,
                   write_buffer, pending_reads, kex_done>>
    /\ UNCHANGED <<loopVars, boxVars, txVars, chanVars>>

FlowData ==
    /\ Len(ops) <= MaxOps
    /\ \E n \in FlowLens :
          FlowApply(data(encrypted, channels, 0, << >>, n, Stamp(rekey, 0)),
                    [op |-> "data", n |-> n])

FlowExtendedData ==
    /\ Len(ops) <= MaxOps
    /\ \E n \in FlowLens :
          FlowApply(data(encrypted, channels, 0, <<1>>, n, Stamp(rekey, 0)),
                    [op |-> "extended_data", n |-> n])

FlowWindowAdjust ==
    /\ Len(ops) <= MaxOps
    /\ \E a \in FlowAdjusts :
          FlowApply(window_adjust(encrypted, channels, 0, a, Stamp(rekey, 0)),
                    [op |-> "window_adjust", n |-> a])

FlowNext == FlowData \/ FlowExtendedData \/ FlowWindowAdjust

SpecFlow == FlowInit /\ [][FlowNext]_vars

IsData(p) == p.op \in {CHANNEL_DATA, CHANNEL_EXTENDED_DATA}

RECURSIVE SumLen(_)
SumLen(q) == IF q = << >> THEN 0 ELSE Head(q).len + SumLen(Tail(q))

Lens(q) == [i \in 1..Len(q) |-> q[i].len]

(***************************************************************************)
(* C3.  Every DATA or EXTENDED_DATA packet emitted for a channel has a     *)
(* payload no longer than sender_window_size was just before the emission  *)
(* and no longer than sender_maximum_packet_size, and sender_window_size   *)
(* is never negative.                                                      *)
(***************************************************************************)
C3_FlowControl ==
    /\ \A i \in 1..Len(write) :
          IsData(write[i]) =>
              /\ write[i].len <= write[i].win
              /\ write[i].len <= write[i].maxp
    /\ \A c \in DOMAIN channels : channels[c].sender_window_size >= 0

\* a packet was cut short by the window (not by the packet limit), and data
\* is left in the queue
C3_Witness ==
    /\ \E i \in 1..Len(write) :
          /\ IsData(write[i])
          /\ write[i].len = write[i].win
          /\ write[i].len < write[i].maxp
    /\ channels[0].pending_data # << >>
    /\ \E j \in 1..Len(ops) : ops[j].op = "window_adjust"

(***************************************************************************)
(* The window-exhaustion scenario: window 8192, packet limit 4096, one     *)
(* write of 20000 bytes, then a WINDOW_ADJUST of 16384.                    *)
(***************************************************************************)
ExhaustionWrite ==
    /\ channels[0].sender_maximum_packet_size = 4096
    /\ ops = <<[op |-> "open", n |-> 8192], [op |-> "data", n |-> 20000]>>

ExhaustionAdjust ==
    /\ channels[0].sender_maximum_packet_size = 4096
    /\ ops = <<[op |-> "open", n |-> 8192], [op |-> "data", n |-> 20000],
               [op |-> "window_adjust", n |-> 16384]>>

ExhaustionPackets(window) ==
    /\ ExhaustionWrite =>
          /\ Lens(write) = <<4096, 4096>>
          /\ SumLen(channels[0].pending_data) = 11808
    /\ ExhaustionAdjust =>
          /\ Lens(write) = <<4096, 4096, 4096, 4096, 3616>>
          /\ \A i \in 1..Len(write) : write[i].op = CHANNEL_DATA
          /\ channels[0].pending_data = << >>
          /\ channels[0].sender_window_size = window

(***************************************************************************)
(* C5 as stated.  With window 8192 and packet limit 4096, writing 20000    *)
(* bytes emits two DATA packets of 4096 and leaves 11808 bytes pending; a  *)
(* WINDOW_ADJUST of 16384 then emits 4096, 4096 and 3616, empties the      *)
(* queue, and leaves sender_window_size at 12288.                          *)
(***************************************************************************)
C5_AsStated == ExhaustionPackets(12288)

(***************************************************************************)
(* C5 amended: the same packets and queue, and sender_window_size is then  *)
(* 16384 - 11808 = 4576.                                                   *)
(***************************************************************************)
C5_WindowExhaustion == ExhaustionPackets(4576)

C5_Witness == ExhaustionAdjust /\ Len(write) = 5

(***************************************************************************)
(*                         The session event loop                          *)
(***************************************************************************)

\* Session::is_rekeying: a rekey is running, or there is no encrypted state
is_rekeying_never == FALSE

is_rekeying_always == TRUE

is_rekeying == IF encrypted THEN rekey # None ELSE TRUE

\* the session's protocol state as one value, for the steps of an iteration
Cur ==
    [ enc |-> encrypted, state |-> state, rekey |-> rekey,
      exchange |-> exchange, wants_reply |-> wants_reply,
      chs |-> channels, write |-> write, wb |-> write_buffer,
      pending |-> pending_reads, era |-> kex_done,
      channels |-> session_channels, handles |-> handles,
      last_channel_id |-> last_channel_id ]

\* the effect of a call on the encrypted state, applied to the session
Apply(s, r) == [s EXCEPT !.chs = r.chs, !.write = @ \o r.out]

PacketBytes(p) == IF IsData(p) THEN 1 + p.len ELSE 1

RECURSIVE SumBytes(_)
SumBytes(q) ==
    IF q = << >> THEN 0 ELSE PacketBytes(Head(q)) + SumBytes(Tail(q))

\* the server's KEXINIT, sealed straight into the write buffer
KexInitPacket(at) == [op |-> KEXINIT, at |-> at]

server_write(wb, p) ==
    [wb EXCEPT !.buffer = Append(@, p), !.bytes = @ + PacketBytes(p),
               !.seqn = wrapping_inc(@)]

(***************************************************************************)
(* Encrypted::flush: seal every packet of enc.write into the write buffer  *)
(* and count its bytes; the rekey threshold is the byte counter reaching   *)
(* limits.rekey_write_limit.                                               *)
(***************************************************************************)
enc_flush(s) ==
    [s EXCEPT !.write = << >>,
              !.wb = [@ EXCEPT !.buffer = @ \o s.write,
                               !.bytes = @ + SumBytes(s.write),
                               !.seqn = wrapping_add(@, Len(s.write))]]

needs_rekey(s) == s.wb.bytes >= RekeyWriteLimit

(***************************************************************************)
(* Session::flush: flush the encrypted state; when the threshold is        *)
(* reached and no rekey is running, take enc.exchange, write a KEXINIT and *)
(* set enc.rekey.                                                          *)
(***************************************************************************)
flush_norekey(s) == IF s.enc THEN enc_flush(s) ELSE s

flush(s) ==
    IF s.enc
    THEN LET f == enc_flush(s)
         IN  IF needs_rekey(f) /\ f.rekey = None
             THEN IF f.exchange
                  THEN [f EXCEPT !.exchange = FALSE,
                                 !.wb = server_write(@, KexInitPacket(Stamp(f.rekey, f.era))),
                                 !.rekey = "Init"]
                  ELSE f
             ELSE f
    ELSE s

SetSession(s) ==
    /\ encrypted' = s.enc
    /\ state' = s.state
    /\ rekey' = s.rekey
    /\ exchange' = s.exchange
    /\ wants_reply' = s.wants_reply
    /\ channels' = s.chs
    /\ write' = s.write
    /\ write_buffer' = s.wb
    /\ pending_reads' = s.pending
    /\ kex_done' = s.era
    /\ session_channels' = s.channels
    /\ handles' = s.handles
    /\ last_channel_id' = s.last_channel_id

\* run returns: the session task ends
Return(r) ==
    /\ pc' = "done"
    /\ result' = r
    /\ UNCHANGED clock

\* timeout(delay) of the select: a new timer in every iteration
restart_never(sleep) == sleep

restart(sleep) == 0

\* the loop goes round: the next select makes its timer; idle counts the
\* ticks since an arm of the select last completed
Rearm == clock' = [clock EXCEPT !.sleep = restart(@), !.idle = 0]

(***************************************************************************)
(* The end of an iteration (run, after the select): flush, write the whole *)
(* write buffer to the transport, clear it.  A failed write returns the    *)
(* error from run.                                                         *)
(***************************************************************************)
\* write_buffer.buffer.clear(): the bytes go, the counters stay
clear_all(wb) == [wb EXCEPT !.buffer = << >>, !.seqn = Wrapping(0)]

clear_none(wb) == wb

clear(wb) == [wb EXCEPT !.buffer = << >>]

Finish(s, write_ok) ==
    LET f == flush(s)
    IN  IF write_ok
        THEN /\ SetSession([f EXCEPT !.wb = clear(@)])
             /\ wire' = wire \o f.wb.buffer
             /\ Rearm
             /\ UNCHANGED <<pc, result>>
        ELSE /\ SetSession(f)
             /\ Return("Err")
             /\ UNCHANGED wire

\* break: leave the loop without the end of the iteration
Break(by) ==
    /\ pc' = "shutdown"
    /\ exit_by' = by
    /\ UNCHANGED <<encVars, chanVars, result, wire, clock>>

(***************************************************************************)
(* Inbound packets.  A read yields fewer than 5 bytes (short: the peer     *)
(* closed the stream), or a packet with its first byte b0.                 *)
(***************************************************************************)
AdjustAmounts == {2}
EchoLens == {1, 3}

InboundPackets ==
    {[b0 |-> 0, short |-> TRUE]}
    \cup {[b0 |-> b, short |-> FALSE] : b \in {DISCONNECT, IGNORE, KEXINIT, NEWKEYS}}
    \cup {[b0 |-> CHANNEL_WINDOW_ADJUST, short |-> FALSE, id |-> c, amount |-> a] :
             c \in {0}, a \in AdjustAmounts}
    \cup {[b0 |-> CHANNEL_DATA, short |-> FALSE, id |-> c, echo |-> e] :
             c \in {0}, e \in {<< >>} \cup {<<n>> : n \in EchoLens}}

(***************************************************************************)
(* The handling of one packet of the connection protocol:                  *)
(*  CHANNEL_WINDOW_ADJUST  adds to the window and flushes pending data;    *)
(*  CHANNEL_DATA  goes to the Handler's data callback, which may answer    *)
(*           with Session::data on the same channel.                       *)
(***************************************************************************)
\* HashMap::insert and HashMap::remove
insert(map, id, v) ==
    [k \in DOMAIN map \cup {id} |-> IF k = id THEN v ELSE map[k]]

register_next(map, id, sender) == insert(map, (id + 1) % IdSpace, sender)

\* self.channels.insert(id, sender): the reply sender of a channel opened
\* through a Handle, keyed by the id just allocated
register(map, id, sender) == insert(map, id, sender)

remove(map, id) == [k \in DOMAIN map \ {id} |-> map[k]]

\* the session sends an event to the reply sender registered for a channel,
\* if there is one: the event joins the inbound queue of that handle
send(s, id, ev) ==
    IF id \in DOMAIN s.channels
    THEN [s EXCEPT !.handles[s.channels[id]].inbox = Append(@, ev),
                   !.handles[s.channels[id]].sent = Append(@, ev)]
    ELSE s

(***************************************************************************)
(* Session::request_success / request_failure, the replies to a global     *)
(* request.  The handler of a GLOBAL_REQUEST notes in common.wants_reply   *)
(* whether the request asks for a reply and then calls these as the        *)
(* application decides: calls is the sequence of its calls.                *)
(***************************************************************************)
request_success(s) ==
    IF s.wants_reply /\ s.enc
    THEN [s EXCEPT !.wants_reply = FALSE,
                   !.write = Append(@, [op |-> REQUEST_SUCCESS,
                                        at |-> Stamp(s.rekey, s.era)])]
    ELSE s

request_failure_checked(s) ==
    IF s.wants_reply /\ s.enc
    THEN [s EXCEPT !.wants_reply = FALSE,
                   !.write = Append(@, [op |-> REQUEST_FAILURE,
                                        at |-> Stamp(s.rekey, s.era)])]
    ELSE s

request_failure(s) ==
    IF s.enc
    THEN [s EXCEPT !.wants_reply = FALSE,
                   !.write = Append(@, [op |-> REQUEST_FAILURE,
                                        at |-> Stamp(s.rekey, s.era)])]
    ELSE s

RECURSIVE global_replies(_, _)
global_replies(s, calls) ==
    IF calls = << >> THEN s
    ELSE global_replies(IF Head(calls) = "success" THEN request_success(s)
                        ELSE request_failure(s),
                        Tail(calls))

process_packet(s, pkt) ==
    CASE pkt.b0 = CHANNEL_WINDOW_ADJUST ->
            Apply(s, window_adjust(s.enc, s.chs, pkt.id, pkt.amount, Stamp(s.rekey, s.era)))
      [] pkt.b0 = CHANNEL_DATA ->
            LET d == send(s, pkt.id,
                          [kind |-> "Data", chan |-> pkt.id,
                           n |-> IF "n" \in DOMAIN pkt THEN pkt.n ELSE 0])
            IN  IF s.enc /\ pkt.echo # << >>
                THEN Apply(d, data(d.enc, d.chs, pkt.id, << >>, pkt.echo[1],
                                   Stamp(d.rekey, d.era)))
                ELSE d
      [] pkt.b0 = CHANNEL_OPEN_CONFIRMATION ->
            IF pkt.id \in DOMAIN s.chs
            THEN send([s EXCEPT !.chs[pkt.id].confirmed = TRUE,
                                !.chs[pkt.id].sender_window_size = pkt.window,
                                !.chs[pkt.id].sender_maximum_packet_size =
                                    pkt.maxp],
                      pkt.id,
                      [kind |-> "Open", id |-> pkt.id, chan |-> pkt.id,
                       max_packet_size |-> pkt.maxp,
                       window_size |-> pkt.window])
            ELSE s
      [] pkt.b0 = CHANNEL_OPEN_FAILURE ->
            LET d == send(s, pkt.id, [kind |-> "OpenFailure", chan |-> pkt.id])
            IN  [d EXCEPT !.chs = remove(@, pkt.id),
                          !.channels = remove(@, pkt.id)]
      [] pkt.b0 = CHANNEL_CLOSE ->
            [s EXCEPT !.chs = remove(@, pkt.id),
                      !.channels = remove(@, pkt.id)]
      [] pkt.b0 = GLOBAL_REQUEST ->
            global_replies([s EXCEPT !.wants_reply = pkt.want_reply],
                           pkt.calls)
      [] pkt.b0 = CHANNEL_EOF ->
            send(s, pkt.id, [kind |-> "Eof", chan |-> pkt.id])
      [] pkt.b0 = CHANNEL_REQUEST ->
            IF pkt.id \in DOMAIN s.chs
            THEN [s EXCEPT !.chs[pkt.id].wants_reply = pkt.want_reply]
            ELSE s
      [] OTHER -> s

RECURSIVE process_all(_, _)
process_all(s, pkts) ==
    IF pkts = << >> THEN s
    ELSE process_all(process_packet(s, Head(pkts)), Tail(pkts))

(***************************************************************************)
(* reply(): the inbound handler for packets above the transport layer.     *)
(*  KEXINIT  starts a rekey asked for by the peer (the server answers with *)
(*           its own KEXINIT) or answers the server's;                     *)
(*  NEWKEYS  ends the key exchange: the encrypted state exists, rekey is   *)
(*           None again, the exchange is put back, the byte counter        *)
(*           starts over, and the packets held in pending_reads are        *)
(*           handled in the order they were read;                          *)
(*  any other packet read while a rekey is running is held in              *)
(*           pending_reads; otherwise it is handled at once.               *)
(***************************************************************************)
reply_nohold(s, pkt) ==
    CASE pkt.b0 = KEXINIT ->
            IF s.enc /\ s.rekey = None /\ s.exchange
            THEN [s EXCEPT !.exchange = FALSE, !.rekey = "Init",
                           !.wb = server_write(@, KexInitPacket(Stamp(s.rekey, s.era)))]
            ELSE s
      [] pkt.b0 = NEWKEYS ->
            IF ~s.enc THEN [s EXCEPT !.enc = TRUE, !.exchange = TRUE]
            ELSE IF s.rekey # None
            THEN process_all(
                    [s EXCEPT !.rekey = None, !.exchange = TRUE,
                              !.wb.bytes = 0, !.pending = << >>,
                              !.era = @ + 1],
                    s.pending)
            ELSE s
      [] OTHER -> process_packet(s, pkt)

reply(s, pkt) ==
    CASE pkt.b0 = KEXINIT ->
            IF s.enc /\ s.rekey = None /\ s.exchange
            THEN [s EXCEPT !.exchange = FALSE, !.rekey = "Init",
                           !.wb = server_write(@, KexInitPacket(Stamp(s.rekey, s.era)))]
            ELSE s
      [] pkt.b0 = NEWKEYS ->
            IF ~s.enc THEN [s EXCEPT !.enc = TRUE, !.exchange = TRUE]
            ELSE IF s.rekey # None
            THEN process_all(
                    [s EXCEPT !.rekey = None, !.exchange = TRUE,
                              !.wb.bytes = 0, !.pending = << >>,
                              !.era = @ + 1],
                    s.pending)
            ELSE s
      [] OTHER ->
            IF ~s.enc THEN s
            ELSE IF s.rekey # None
            THEN [s EXCEPT !.pending = Append(@, pkt)]
            ELSE process_packet(s, pkt)

(***************************************************************************)
(* The inbound arm of the select (run, "r = &mut reading").                *)
(***************************************************************************)
\* the read future completes: a packet that was read and opened counts in
\* the buffer's sequence number, a read that found the stream closed (short)
\* does not
start_reading(b, short) ==
    IF short THEN b ELSE [b EXCEPT !.seqn = wrapping_inc(@)]

\* "else if buf[0] > 4": the packets that go to reply()
to_handler_all(b0) == TRUE

to_handler(b0) == b0 > 4

\* the handler's effect on the session's slot: completing a key exchange
\* puts the new opening key there
install(c, before, after) ==
    IF after.era # before.era
    THEN [c EXCEPT !.remote_to_local = Key(after.era)]
    ELSE c

\* the keys around a call of reply: swapped into the session for the
\* handler, swapped back out for the next read
around_reply_once(c, before, after) == install(swap(c), before, after)

around_reply(c, before, after) == swap(install(swap(c), before, after))

ReadPacket(pkt) ==
    /\ pc = "select"
    /\ reads' = reads + 1
    /\ buffer' = start_reading(buffer, pkt.short)
    /\ UNCHANGED <<boxVars, ops, writer_shut, drain_n, txVars>>
    /\ \E write_ok \in BOOLEAN :
          IF pkt.short
          THEN Break("eof") /\ UNCHANGED <<replies, cipher>>
          ELSE IF pkt.b0 = DISCONNECT
          THEN Break("disconnect") /\ UNCHANGED <<replies, cipher>>
          ELSE IF to_handler(pkt.b0)
          THEN /\ replies' = replies + 1
               /\ cipher' = around_reply(cipher, Cur, reply(Cur, pkt))
               /\ Finish(reply(Cur, pkt), write_ok)
               /\ UNCHANGED exit_by
          ELSE /\ Finish(Cur, write_ok)
               /\ UNCHANGED <<replies, exit_by, cipher>>

ReadArm ==
    /\ reads < MaxReads
    /\ \E pkt \in InboundPackets : ReadPacket(pkt)

\* the inbound arm with a packet that enc.decompress rejects: break
ReadUndecodable ==
    /\ pc = "select"
    /\ encrypted
    /\ reads' = reads + 1
    /\ buffer' = start_reading(buffer, FALSE)
    /\ UNCHANGED cipher
    /\ Break("decompress")
    /\ UNCHANGED <<boxVars, ops, writer_shut, drain_n, replies, txVars>>

\* the read fails with an I/O error: run returns it
ReadError ==
    /\ UNCHANGED <<txVars, chanVars>>
    /\ pc = "select"
    /\ Return("Err")
    /\ UNCHANGED <<encVars, boxVars, ops, exit_by, writer_shut, wire, reads,
                   replies, drain_n, buffer, cipher>>

\* the timer arm: connection_timeout elapsed
TimeoutArm ==
    /\ UNCHANGED txVars
    /\ pc = "select"
    /\ clock.sleep >= clock.delay
    /\ Break("timeout")
    /\ UNCHANGED <<boxVars, ops, writer_shut, reads, replies, drain_n, buffer, cipher>>

(***************************************************************************)
(* The mailbox arm of the select, enabled when not rekeying: take the      *)
(* oldest message and handle it.  task and seq of a message are not part   *)
(* of it: they name the sender and the message's number among the sender's.*)
(***************************************************************************)
\* Encrypted::new_channel: the next id after the last one that is not live
new_channel_id_noskip(last, chs) == (last + 1) % IdSpace

new_channel_id(last, chs) ==
    LET cand(k) == (last + k) % IdSpace
    IN  cand(CHOOSE k \in 1..IdSpace :
                /\ cand(k) \notin DOMAIN chs
                /\ \A j \in 1..(k - 1) : cand(j) \in DOMAIN chs)

\* common.config: the window and the packet size the server offers for the
\* channels it opens
config == [window_size |-> 3, maximum_packet_size |-> 2]

\* Session::channel_open_session: allocate an id with an unconfirmed record
\* and queue the CHANNEL_OPEN packet; Error::Inconsistent (err) unless the
\* connection is authenticated
channel_open_session(s) ==
    IF s.enc /\ s.state \in {Authenticated, InitCompression}
    THEN LET id == new_channel_id(s.last_channel_id, s.chs)
         IN  [ chs |-> insert(s.chs, id, NewChannelRecord(0, 0, 0, FALSE)),
               out |-> <<[op |-> CHANNEL_OPEN, ch |-> id,
                          window |-> config.window_size,
                          maxp |-> config.maximum_packet_size,
                          at |-> Stamp(s.rekey, s.era)]>>,
               sent |-> 0, panic |-> FALSE, id |-> id, err |-> FALSE ]
    ELSE [ chs |-> s.chs, out |-> << >>, sent |-> 0, panic |-> FALSE,
           id |-> 0, err |-> TRUE ]

recv_newest(q) == [msg |-> q[Len(q)], rest |-> SubSeq(q, 1, Len(q) - 1)]

\* receiver.recv(): the oldest message, and the mailbox without it
recv(q) == [msg |-> Head(q), rest |-> Tail(q)]

\* "Some(_) => unimplemented!(..)": the arm for every other message panics
unimplemented(s) == Result(s.chs, << >>, 0, TRUE)

HandleMsg(s, msg) ==
    CASE msg.kind = "Data" -> data(s.enc, s.chs, msg.id, << >>, msg.len, Stamp(s.rekey, s.era))
      [] msg.kind = "ExtendedData" ->
            data(s.enc, s.chs, msg.id, <<msg.ext>>, msg.len, Stamp(s.rekey, s.era))
      [] msg.kind = "Eof" ->
            byte(s.enc, s.chs, msg.id, CHANNEL_EOF, Stamp(s.rekey, s.era))
      [] msg.kind = "Close" ->
            byte(s.enc, s.chs, msg.id, CHANNEL_CLOSE, Stamp(s.rekey, s.era))
      [] msg.kind = "Success" ->
            channel_reply(s.enc, s.chs, msg.id, CHANNEL_SUCCESS,
                          Stamp(s.rekey, s.era))
      [] msg.kind = "Failure" ->
            channel_reply(s.enc, s.chs, msg.id, CHANNEL_FAILURE,
                          Stamp(s.rekey, s.era))
      [] msg.kind = "XonXoff" ->
            channel_request(s.enc, s.chs, msg.id, "xon-xoff",
                            Stamp(s.rekey, s.era))
      [] msg.kind = "ExitStatus" ->
            channel_request(s.enc, s.chs, msg.id, "exit-status",
                            Stamp(s.rekey, s.era))
      [] msg.kind = "ExitSignal" ->
            channel_request(s.enc, s.chs, msg.id, "exit-signal",
                            Stamp(s.rekey, s.era))
      [] msg.kind = "WindowAdjusted" -> Result(s.chs, << >>, 0, FALSE)
      [] OTHER -> unimplemented(s)

\* what handling the message does: Msg::ChannelOpenSession opens a channel,
\* every other message goes to its session method
MsgOutcome(msg) ==
    IF msg.kind = "ChannelOpenSession" THEN channel_open_session(Cur)
    ELSE HandleMsg(Cur, msg)

\* the session when the message has been handled, before the flush
MsgSession(msg) ==
    LET r == MsgOutcome(msg)
    IN  IF msg.kind = "ChannelOpenSession"
        THEN [Apply(Cur, r) EXCEPT
                !.last_channel_id = r.id,
                !.channels = register(@, r.id, msg.sender),
                !.handles[msg.sender].opened = <<r.id>>]
        ELSE Apply(Cur, r)

MailboxArm ==
    /\ UNCHANGED txVars
    /\ pc = "select"
    /\ ~is_rekeying
    /\ receiver # << >>
    /\ LET msg == recv(receiver).msg
           opening == msg.kind = "ChannelOpenSession"
           r == MsgOutcome(msg)
           s == MsgSession(msg)
       IN  /\ receiver' = recv(receiver).rest
           /\ handled' = [handled EXCEPT ![msg.task] = @ + 1]
           /\ IF r.panic
              THEN Return("Panic") /\ UNCHANGED <<encVars, chanVars, wire>>
              ELSE IF opening /\ r.err
              THEN Return("Inconsistent")
                   /\ UNCHANGED <<encVars, chanVars, wire>>
              ELSE \E write_ok \in BOOLEAN : Finish(s, write_ok)
    /\ UNCHANGED <<posted, ops, exit_by, writer_shut, reads, replies, drain_n,
                   buffer, cipher>>

(***************************************************************************)
(* After the loop: shut the writer down, then read until a read returns 0  *)
(* bytes.                                                                  *)
(***************************************************************************)
Shutdown ==
    /\ UNCHANGED <<txVars, chanVars>>
    /\ pc = "shutdown"
    /\ \E ok \in BOOLEAN :
          IF ok
          THEN writer_shut' = TRUE /\ pc' = "drain" /\ UNCHANGED <<result, clock>>
          ELSE Return("Err") /\ UNCHANGED writer_shut
    /\ UNCHANGED <<encVars, boxVars, ops, exit_by, wire, reads, replies, drain_n,
                   buffer, cipher>>

drain_break_any(n) == TRUE

\* "if n == 0 { break }": the drain ends on a read of 0 bytes
drain_break(n) == n = "eof"

DrainRead ==
    /\ UNCHANGED <<txVars, chanVars>>
    /\ pc = "drain"
    /\ UNCHANGED cipher
    /\ \E n \in {"packet", "eof", "error"} :
          IF n = "error"
          THEN Return("Err") /\ UNCHANGED <<reads, drain_n, buffer>>
          ELSE /\ drain_n' = n
               /\ buffer' = start_reading(buffer, n = "eof")
               /\ IF n = "packet"
                  THEN reads < MaxReads /\ reads' = reads + 1
                  ELSE UNCHANGED reads
               /\ IF drain_break(n)
                  THEN Return("Ok")
                  ELSE UNCHANGED <<pc, result, clock>>
    /\ UNCHANGED <<encVars, boxVars, ops, exit_by, writer_shut, wire, replies>>

(***************************************************************************)
(* User tasks: Channel::send_msg / Handle::data post a message for channel *)
(* 0 to the bounded mailbox; the send waits while the mailbox is full and  *)
(* fails once the session has dropped the receiver.                        *)
(***************************************************************************)
DataLens == {1, 3}

\* task 1 writes data of either length through a Channel, task 2 a byte of
\* extended data (stderr) through a Handle clone
Messages(t) ==
    IF t = 1
    THEN {[kind |-> "Data", len |-> n, ext |-> 0] : n \in DataLens}
    ELSE {[kind |-> "ExtendedData", len |-> 1, ext |-> 1]}

Post(t) ==
    /\ pc # "done"
    /\ posted[t] < MaxMsgs
    /\ Len(receiver) < MailboxCap
    /\ \E m \in Messages(t) :
          receiver' = Append(receiver,
              [kind |-> m.kind, id |-> 0, len |-> m.len, ext |-> m.ext,
               task |-> t, seq |-> posted[t] + 1])
    /\ posted' = [posted EXCEPT ![t] = @ + 1]
    /\ UNCHANGED <<encVars, loopVars, handled, ops, txVars, chanVars>>

Start ==
    /\ LoopIdle
    /\ state = Authenticated
    /\ TxIdle
    /\ ChanIdle
    /\ ops = << >>
    /\ rekey = None
    /\ write = << >>
    /\ \/ encrypted = FALSE /\ exchange = FALSE /\ channels = << >>
       \/ /\ encrypted = TRUE
          /\ exchange = TRUE
          /\ channels = (0 :> NewChannelRecord(0, 2, 2, TRUE))

Init == NewBuffers /\ Start /\ NoClock

Next ==
    \/ ReadArm
    \/ ReadError
    \/ TimeoutArm
    \/ MailboxArm
    \/ Shutdown
    \/ DrainRead
    \/ \E t \in Tasks : Post(t)

Spec == Init /\ [][Next]_vars

(***************************************************************************)
(*                      The loop with the passing of time                  *)
(*                                                                         *)
(* connection_timeout is ConnectionTimeout ticks.  A tick passes while the *)
(* loop waits in the select and the timer of the iteration has not run     *)
(* out; once it has, the timer arm is ready.  The peer sends transport     *)
(* packets, one task posts data.                                           *)
(***************************************************************************)
Tick ==
    /\ pc = "select"
    /\ clock.sleep < clock.delay
    /\ clock' = [clock EXCEPT !.sleep = @ + 1, !.idle = @ + 1]
    /\ UNCHANGED <<encVars, boxVars, ops, txVars, chanVars, pc, result,
                   exit_by, writer_shut, wire, reads, replies, drain_n,
                   buffer, cipher>>

IdleInit ==
    /\ NewBuffers
    /\ Start
    /\ encrypted
    /\ clock = [delay |-> ConnectionTimeout, sleep |-> 0, idle |-> 0]

IdleReadArm ==
    /\ reads < MaxReads
    /\ \E pkt \in InboundPackets :
          /\ pkt.b0 \in {IGNORE, KEXINIT, NEWKEYS}
          /\ ReadPacket(pkt)

IdleNext ==
    \/ Tick
    \/ IdleReadArm
    \/ TimeoutArm
    \/ MailboxArm
    \/ Shutdown
    \/ DrainRead
    \/ Post(1)

SpecIdle == IdleInit /\ [][IdleNext]_vars

(***************************************************************************)
(*                  The loop on a connection of any age                    *)
(*                                                                         *)
(* The sequence numbers of a connection that has carried packets before    *)
(* the loop is looked at: none, enough to carry into the high half of the  *)
(* word, and all but the last before the word wraps.                       *)
(***************************************************************************)
Seqns == {Wrapping(0), [hi |-> 0, lo |-> Half - 1],
          [hi |-> Half - 1, lo |-> Half - 2]}

SeqnInit ==
    /\ write_buffer \in {[SSHBuffer_new EXCEPT !.seqn = w] : w \in Seqns}
    /\ buffer \in {[SSHBuffer_new EXCEPT !.seqn = w] : w \in Seqns}
    /\ cipher = swap([remote_to_local |-> Key(0), opening_cipher |-> clear_Key])
    /\ Start
    /\ encrypted
    /\ NoClock

SeqnNext ==
    \/ ReadArm
    \/ TimeoutArm
    \/ MailboxArm
    \/ Shutdown
    \/ DrainRead
    \/ Post(1)

SpecSeqn == SeqnInit /\ [][SeqnNext]_vars

\* the same loop on a new encrypted connection
EncInit ==
    /\ NewBuffers
    /\ Start
    /\ encrypted
    /\ NoClock

SpecEnc == EncInit /\ [][SeqnNext]_vars

(***************************************************************************)
(*             Channel::data and the shared window-size cell               *)
(*                                                                         *)
(* Task 1 owns a Channel for channel 0 and calls data / extended_data; the *)
(* call builds an io::ChannelTx (into_io_parts_ext) and copies the source  *)
(* into it.  For every chunk the writer takes min(max_packet_size, cell,   *)
(* bytes left) out of the cell, waiting while that is 0, and then posts    *)
(* the chunk to the session mailbox, waiting while the mailbox is full.    *)
(* Task 2 posts Eof messages with send_msg.  The session raises the cell   *)
(* when the peer's CHANNEL_WINDOW_ADJUST arrives.                          *)
(***************************************************************************)
\* the credit the peer's window adjustments add in one run, at most
MaxCredit == 4

\* the channels of a run: starting window and max_packet_size
TxChannels == {[window |-> 0, maxp |-> 2], [window |-> 5, maxp |-> 3]}
\* the calls of a run: data(n bytes) or extended_data(1, n bytes)
TxCalls == {[ext |-> << >>, n |-> 3], [ext |-> << >>, n |-> 6],
            [ext |-> <<1>>, n |-> 3]}
TxAdjusts == {1, 3}

\* Channel::new: the handle of a channel, its cell starting at window
NewChannel(id, max_packet_size, window) ==
    [id |-> id, max_packet_size |-> max_packet_size, window_size |-> window]

into_io_parts_ext_nolimit(channel, ext) ==
    [ pc |-> "copy", channel |-> channel, id |-> channel.id,
      max_packet_size |-> WindowMax, ext |-> ext,
      buf |-> 0, chunk |-> 0, cell |-> 0 ]

\* Channel::into_io_parts_ext: a ChannelTx for the handle's id, its cell
\* and its max_packet_size
into_io_parts_ext(channel, ext) ==
    [ pc |-> "copy", channel |-> channel, id |-> channel.id,
      max_packet_size |-> channel.max_packet_size, ext |-> ext,
      buf |-> 0, chunk |-> 0, cell |-> 0 ]

\* the size of the next chunk
writable(t, cell) == Min(Min(t.max_packet_size, cell), t.buf)

TxInit ==
    /\ NewBuffers
    /\ LoopIdle
    /\ NoClock
    /\ state = Authenticated
    /\ ChanIdle
    /\ ops = << >>
    /\ encrypted = TRUE
    /\ rekey = None
    /\ exchange = TRUE
    /\ write = << >>
    /\ chunks = << >>
    /\ adjusted = 0
    /\ sending = "idle"
    /\ \E c \in TxChannels :
          /\ channels = (0 :> NewChannelRecord(0, c.window, c.maxp, TRUE))
          /\ window_size = c.window
          /\ tx = [pc |-> "idle", channel |-> NewChannel(0, c.maxp, c.window)]

TxUnchanged == UNCHANGED <<encVars, loopVars, handled, ops, chanVars>>

\* Channel::send_data: make the writer and start copying n bytes
TxSendData ==
    /\ tx.pc = "idle"
    /\ \E c \in TxCalls :
          tx' = [into_io_parts_ext(tx.channel, c.ext) EXCEPT !.buf = c.n]
    /\ UNCHANGED <<window_size, chunks, adjusted, sending, receiver, posted>>
    /\ TxUnchanged

\* the writer cuts the next chunk and takes it out of the cell
TxMkMsg ==
    /\ tx.pc = "copy"
    /\ tx.buf > 0
    /\ writable(tx, window_size) > 0
    /\ window_size' = window_size - writable(tx, window_size)
    /\ tx' = [tx EXCEPT !.pc = "send", !.chunk = writable(tx, window_size),
                        !.cell = window_size]
    /\ UNCHANGED <<chunks, adjusted, sending, receiver, posted>>
    /\ TxUnchanged

\* the chunk goes into the mailbox once there is room
TxSend ==
    /\ tx.pc = "send"
    /\ Len(receiver) < MailboxCap
    /\ receiver' = Append(receiver,
          [ kind |-> IF tx.ext = << >> THEN "Data" ELSE "ExtendedData",
            id |-> tx.id, len |-> tx.chunk,
            ext |-> IF tx.ext = << >> THEN 0 ELSE tx.ext[1],
            task |-> 1, seq |-> posted[1] + 1 ])
    /\ posted' = [posted EXCEPT ![1] = @ + 1]
    /\ chunks' = Append(chunks,
          [ len |-> tx.chunk, cell |-> tx.cell,
            maxp |-> tx.channel.max_packet_size ])
    /\ tx' = [tx EXCEPT !.buf = @ - tx.chunk, !.chunk = 0,
                        !.pc = IF tx.buf = tx.chunk THEN "done" ELSE "copy"]
    /\ UNCHANGED <<window_size, adjusted, sending>>
    /\ TxUnchanged

\* the task is cancelled inside data(): the copy and the writer are dropped
TxCancel ==
    /\ tx.pc \in {"copy", "send"}
    /\ tx' = [tx EXCEPT !.pc = "cancelled"]
    /\ UNCHANGED <<window_size, chunks, adjusted, sending, receiver, posted>>
    /\ TxUnchanged

\* the read arm with the peer's CHANNEL_WINDOW_ADJUST for channel 0: the
\* inbound handler, which also raises the cell, and the end of the iteration
TxWindowAdjusted ==
    /\ pc = "select"
    /\ rekey = None
    /\ \E a \in TxAdjusts, write_ok \in BOOLEAN :
          /\ adjusted + a <= MaxCredit
          /\ adjusted' = adjusted + a
          /\ window_size' = saturating_add(window_size, a)
          /\ Finish(reply(Cur, [b0 |-> CHANNEL_WINDOW_ADJUST, short |-> FALSE,
                               id |-> 0, amount |-> a]), write_ok)
    /\ reads' = reads + 1
    /\ buffer' = start_reading(buffer, FALSE)
    /\ UNCHANGED cipher
    /\ replies' = replies + 1
    /\ UNCHANGED <<tx, chunks, sending, boxVars, ops, exit_by,
                   writer_shut, drain_n>>

\* Channel::eof of task 2: send_msg starts ...
SendMsgStart ==
    /\ sending = "idle"
    /\ posted[2] < MaxMsgs
    /\ sending' = "waiting"
    /\ UNCHANGED <<window_size, tx, chunks, adjusted, receiver, posted>>
    /\ TxUnchanged

\* ... its message goes into the mailbox once there is room ...
SendMsgSend ==
    /\ sending = "waiting"
    /\ Len(receiver) < MailboxCap
    /\ receiver' = Append(receiver,
          [ kind |-> "Eof", id |-> 0, len |-> 0, ext |-> 0,
            task |-> 2, seq |-> posted[2] + 1 ])
    /\ posted' = [posted EXCEPT ![2] = @ + 1]
    /\ sending' = "idle"
    /\ UNCHANGED <<window_size, tx, chunks, adjusted>>
    /\ TxUnchanged

\* ... or the task is cancelled while the send waits
SendMsgCancel ==
    /\ sending = "waiting"
    /\ sending' = "cancelled"
    /\ UNCHANGED <<window_size, tx, chunks, adjusted, receiver, posted>>
    /\ TxUnchanged

TxNext ==
    \/ TxSendData
    \/ TxMkMsg
    \/ TxSend
    \/ TxCancel
    \/ TxWindowAdjusted
    \/ SendMsgStart
    \/ SendMsgSend
    \/ SendMsgCancel
    \/ MailboxArm

SpecTx == TxInit /\ [][TxNext]_vars

(***************************************************************************)
(*                   Channels opened through a Handle                      *)
(*                                                                         *)
(* Each task h calls Handle::channel_open_session: it posts its reply      *)
(* sender to the session and waits for the Open event, which gives the     *)
(* Channel its id.  The session allocates the id, sends CHANNEL_OPEN and   *)
(* registers the sender under the id; the peer confirms, sends data and    *)
(* closes.  An event carries chan, the channel of the packet it was made   *)
(* from; a handle's opened is the id the session allocated for its open.   *)
(***************************************************************************)
Handles == 1..MaxHandles

ChanPackets ==
    {[b0 |-> NEWKEYS, short |-> FALSE]}
    \cup {[b0 |-> b, short |-> FALSE, id |-> c, echo |-> << >>] :
             b \in {CHANNEL_DATA, CHANNEL_CLOSE}, c \in 0..(IdSpace - 1)}
    \cup {[b0 |-> CHANNEL_OPEN_CONFIRMATION, short |-> FALSE, id |-> c,
           window |-> 2 + c, maxp |-> 1 + c] : c \in 0..(IdSpace - 1)}

\* a Channel that has not been made a stream: no bridging task, nothing
\* written to the stream side (r_rx), nothing passed to it (w_tx)
NoStream ==
    [task |-> "none", r_rx |-> << >>, dropped |-> FALSE, w_tx |-> << >>,
     hold |-> 0, written |-> << >>, posts |-> << >>]

ChanStart ==
    /\ NewBuffers
    /\ RunIdle
    /\ NoClock
    /\ TxIdle
    /\ ops = << >>
    /\ encrypted = TRUE
    /\ rekey = None
    /\ exchange = TRUE
    /\ write = << >>
    /\ channels = << >>
    /\ posted = [h \in Handles |-> 0]
    /\ handled = [h \in Handles |-> 0]
    /\ session_channels = << >>
    /\ last_channel_id = 0
    /\ handles = [h \in Handles |->
                    [st |-> "new", id |-> << >>, max_packet_size |-> 0,
                     window_size |-> 0, inbox |-> << >>, opened |-> << >>,
                     sent |-> << >>, got |-> << >>, stream |-> NoStream]]

ChanInit == ChanStart /\ state = Authenticated

ChanUnchanged ==
    UNCHANGED <<encVars, loopVars, handled, ops, txVars, session_channels,
                last_channel_id>>

\* opens asked for and not yet handled
Opening(q) == {i \in 1..Len(q) : q[i].kind = "ChannelOpenSession"}

\* Handle::channel_open_session, up to the wait for the confirmation: the
\* request carries the sender of a new queue whose receiver the call keeps.
\* The send fails with SendError once the session has dropped the mailbox.
ChanOpenSession(h) ==
    /\ handles[h].st = "new"
    /\ \A g \in 1..(h - 1) : handles[g].st # "new"
    /\ IF pc = "done"
       THEN /\ handles' = [handles EXCEPT ![h].st = "SendError"]
            /\ UNCHANGED <<receiver, posted>>
       ELSE /\ Len(receiver) < MailboxCap
            /\ Cardinality(DOMAIN channels) + Cardinality(Opening(receiver))
                  < IdSpace
            /\ receiver' = Append(receiver,
                  [kind |-> "ChannelOpenSession", sender |-> h,
                   task |-> h, seq |-> posted[h] + 1])
            /\ posted' = [posted EXCEPT ![h] = @ + 1]
            /\ handles' = [handles EXCEPT ![h].st = "waiting"]
    /\ ChanUnchanged

\* the session still holds the sender of handle h's queue: in an open
\* request waiting in the mailbox, or in Session::channels.  run owns the
\* session, so everything is dropped when run has returned.
SenderAlive(h) ==
    /\ pc # "done"
    /\ \/ \E i \in 1..Len(receiver) :
             receiver[i].kind = "ChannelOpenSession" /\ receiver[i].sender = h
       \/ \E c \in DOMAIN session_channels : session_channels[c] = h

(***************************************************************************)
(* Handle::wait_channel_confirmation, one turn of its loop: receiver.recv  *)
(* yields the oldest event, or None when the queue is empty and the sender *)
(* is dropped.  Open makes the Channel from the event's id and limits,     *)
(* None is Error::Disconnect, any other event is passed over.              *)
(***************************************************************************)
wait_channel_confirmation_nolimits(hd, alive) ==
    IF hd.inbox = << >> THEN [hd EXCEPT !.st = "Disconnect"]
    ELSE [hd EXCEPT !.inbox = Tail(@), !.got = Append(@, Head(hd.inbox)),
                    !.st = "open", !.id = <<Head(hd.inbox).chan>>]

wait_channel_confirmation_forever(hd, alive) ==
    IF hd.inbox = << >> THEN hd
    ELSE [hd EXCEPT !.inbox = Tail(@), !.got = Append(@, Head(hd.inbox))]

wait_channel_confirmation(hd, alive) ==
    IF hd.inbox = << >>
    THEN [hd EXCEPT !.st = "Disconnect"]
    ELSE LET ev == Head(hd.inbox)
         IN  IF ev.kind = "Open"
             THEN [hd EXCEPT !.inbox = Tail(@), !.got = Append(@, ev),
                             !.st = "open", !.id = <<ev.id>>,
                             !.max_packet_size = ev.max_packet_size,
                             !.window_size = ev.window_size]
             ELSE [hd EXCEPT !.inbox = Tail(@), !.got = Append(@, ev)]

ChanWaitConfirmation(h) ==
    /\ handles[h].st = "waiting"
    /\ handles[h].inbox # << >> \/ ~SenderAlive(h)
    /\ handles' = [handles EXCEPT
                      ![h] = wait_channel_confirmation(@, SenderAlive(h))]
    /\ UNCHANGED <<receiver, posted>>
    /\ ChanUnchanged

\* Channel::close, once per handle: send_msg posts (self.id, msg)
send_msg(channel, msg) == [kind |-> msg, id |-> channel.id[1]]

ChanSendMsg(h) ==
    /\ pc # "done"
    /\ handles[h].st = "open"
    /\ Len(receiver) < MailboxCap
    /\ \E msg \in {"Close"} :
          LET m == send_msg(handles[h], msg)
          IN  receiver' = Append(receiver,
                [kind |-> m.kind, id |-> m.id, len |-> 0, ext |-> 0,
                 task |-> h, seq |-> posted[h] + 1])
    /\ posted' = [posted EXCEPT ![h] = @ + 1]
    /\ handles' = [handles EXCEPT ![h].st = "closed"]
    /\ ChanUnchanged

\* what the peer sends: NEWKEYS to end a rekey; for a channel of the table
\* the confirmation if it is unconfirmed, data or CLOSE if it is confirmed
PeerSends(pkt) ==
    IF pkt.b0 = NEWKEYS THEN rekey # None
    ELSE /\ pkt.id \in DOMAIN channels
         /\ pkt.b0 \in {CHANNEL_OPEN_CONFIRMATION, CHANNEL_OPEN_FAILURE}
               => ~channels[pkt.id].confirmed
         /\ pkt.b0 \in {CHANNEL_DATA, CHANNEL_CLOSE, CHANNEL_REQUEST,
                       CHANNEL_EOF}
               => channels[pkt.id].confirmed

ChanReadArm ==
    /\ reads < MaxInbound
    /\ \E pkt \in ChanPackets : PeerSends(pkt) /\ ReadPacket(pkt)

ChanNext ==
    \/ \E h \in Handles : ChanOpenSession(h)
    \/ \E h \in Handles : ChanWaitConfirmation(h)
    \/ \E h \in Handles : ChanSendMsg(h)
    \/ ChanReadArm
    \/ MailboxArm

SpecChan == ChanInit /\ [][ChanNext]_vars

(***************************************************************************)
(* Opening channels through Handles while the peer confirms or refuses     *)
(* each request and the connection may fail under the session.             *)
(***************************************************************************)
OpenPackets ==
    {pkt \in ChanPackets : pkt.b0 = CHANNEL_OPEN_CONFIRMATION}
    \cup {[b0 |-> CHANNEL_OPEN_FAILURE, short |-> FALSE, id |-> c] :
            c \in 0..(IdSpace - 1)}

OpenReadArm ==
    /\ reads < MaxReads
    /\ \E pkt \in OpenPackets : PeerSends(pkt) /\ ReadPacket(pkt)

OpenNext ==
    \/ \E h \in Handles : ChanOpenSession(h)
    \/ \E h \in Handles : ChanWaitConfirmation(h)
    \/ OpenReadArm
    \/ MailboxArm

SpecOpen == ChanInit /\ [][OpenNext]_vars

\* the caller of channel_open_session is polled while its receiver is ready
SpecOpenLive ==
    SpecOpen /\ \A h \in Handles : WF_vars(ChanWaitConfirmation(h))

(***************************************************************************)
(* Channel::wait is receiver.recv(): the oldest queued event, or None when *)
(* the queue is empty and the session has dropped the sender.              *)
(***************************************************************************)
wait_newest(hd) ==
    IF hd.inbox = << >> THEN [hd EXCEPT !.st = "ended"]
    ELSE [hd EXCEPT !.inbox = SubSeq(@, 1, Len(@) - 1),
                    !.got = Append(@, hd.inbox[Len(hd.inbox)])]

wait(hd) ==
    IF hd.inbox = << >> THEN [hd EXCEPT !.st = "ended"]
    ELSE [hd EXCEPT !.inbox = Tail(@), !.got = Append(@, Head(hd.inbox))]

ChanWait(h) ==
    /\ handles[h].st = "open"
    /\ handles[h].inbox # << >> \/ ~SenderAlive(h)
    /\ handles' = [handles EXCEPT ![h] = wait(@)]
    /\ UNCHANGED <<receiver, posted>>
    /\ ChanUnchanged

\* the peer's packets for a channel; data packets are numbered as they
\* arrive so that the events they become can be told apart
WaitPackets ==
    {pkt \in ChanPackets : pkt.b0 \in {CHANNEL_OPEN_CONFIRMATION,
                                        CHANNEL_CLOSE}}
    \cup {[b0 |-> CHANNEL_DATA, short |-> FALSE, id |-> c, echo |-> << >>,
           n |-> reads + 1] : c \in 0..(IdSpace - 1)}

\* tokio::sync::mpsc::unbounded_channel: there is room for one more event
\* in a queue that holds q, whatever q is
bounded_channel(q) == Len(q) < 1

unbounded_channel(q) == TRUE

\* the session can post the event this packet becomes without waiting
Deliverable(pkt) ==
    (pkt.b0 \in {CHANNEL_OPEN_CONFIRMATION, CHANNEL_DATA}
        /\ pkt.id \in DOMAIN session_channels)
       => unbounded_channel(handles[session_channels[pkt.id]].inbox)

\* the read arm takes a packet for channel c
WaitRead(c, ops_) ==
    /\ reads < MaxInbound
    /\ \E pkt \in WaitPackets :
          /\ pkt.b0 \in ops_
          /\ pkt.id = c
          /\ PeerSends(pkt)
          /\ Deliverable(pkt)
          /\ ReadPacket(pkt)

DataRead(c) == WaitRead(c, {CHANNEL_DATA})

WaitReadArm ==
    /\ pc = "select"
    /\ \E c \in 0..(IdSpace - 1) :
          WaitRead(c, {CHANNEL_OPEN_CONFIRMATION, CHANNEL_DATA,
                       CHANNEL_CLOSE})

WaitNext ==
    \/ \E h \in Handles : ChanOpenSession(h)
    \/ \E h \in Handles : ChanWaitConfirmation(h)
    \/ \E h \in Handles : ChanWait(h)
    \/ WaitReadArm
    \/ MailboxArm

SpecWait == ChanInit /\ [][WaitNext]_vars

\* the same with MaxConsumers tasks
Consumers == 1..MaxConsumers

ConsumerNext ==
    \/ \E h \in Consumers : ChanOpenSession(h)
    \/ \E h \in Consumers : ChanWaitConfirmation(h)
    \/ \E h \in Consumers : ChanWait(h)
    \/ WaitReadArm
    \/ MailboxArm

SpecConsumer == ChanInit /\ [][ConsumerNext]_vars

(***************************************************************************)
(*                    Errors that are fatal to the session                 *)
(*                                                                         *)
(* Handles ask for channels on a connection that may not be authenticated  *)
(* yet, the peer confirms the opens or sends a packet that cannot be       *)
(* decompressed, and run goes on to its end.                               *)
(***************************************************************************)
FatalInit == ChanStart /\ state \in {Authenticated, WaitingAuthRequest}

FatalReadArm ==
    /\ reads < MaxReads
    /\ \/ \E pkt \in ChanPackets :
             /\ pkt.b0 = CHANNEL_OPEN_CONFIRMATION
             /\ PeerSends(pkt)
             /\ ReadPacket(pkt)
       \/ ReadUndecodable

FatalNext ==
    \/ \E h \in Handles : ChanOpenSession(h)
    \/ \E h \in Handles : ChanWaitConfirmation(h)
    \/ FatalReadArm
    \/ MailboxArm
    \/ Shutdown
    \/ DrainRead

SpecFatal == FatalInit /\ [][FatalNext]_vars

(***************************************************************************)
(*                   Operations on one channel of the table                *)
(*                                                                         *)
(* Channel 0 is in the table, either as new_channel left it (unconfirmed,  *)
(* no credit) or confirmed with a window of one byte.  A task posts data,  *)
(* EOF, CLOSE, replies and requests for it through a Handle; the peer      *)
(* confirms the channel, adds credit, closes it, or ends a rekey.          *)
(***************************************************************************)
OpsMessages ==
    {[kind |-> "Data", len |-> n] : n \in DataLens}
    \cup {[kind |-> k, len |-> 0] :
             k \in {"Eof", "Close", "Success", "Failure", "XonXoff",
                    "ExitStatus", "ExitSignal"}}

OpsPackets ==
    {[b0 |-> NEWKEYS, short |-> FALSE],
     [b0 |-> CHANNEL_OPEN_CONFIRMATION, short |-> FALSE, id |-> 0,
      window |-> 2, maxp |-> 2],
     [b0 |-> CHANNEL_WINDOW_ADJUST, short |-> FALSE, id |-> 0, amount |-> 2],
     [b0 |-> CHANNEL_CLOSE, short |-> FALSE, id |-> 0]}

OpsInit ==
    /\ NewBuffers
    /\ LoopIdle
    /\ TxIdle
    /\ ChanIdle
    /\ NoClock
    /\ state = Authenticated
    /\ ops = << >>
    /\ encrypted = TRUE
    /\ rekey = None
    /\ exchange = TRUE
    /\ write = << >>
    /\ \/ channels = (0 :> NewChannelRecord(0, 0, 0, FALSE))
       \/ \E w \in BOOLEAN :
             channels = (0 :> [NewChannelRecord(0, 1, 2, TRUE)
                                  EXCEPT !.wants_reply = w])

\* Handle::data, eof, close, channel_success, ... : post Msg::Channel(id, ..)
OpsPost ==
    /\ pc # "done"
    /\ posted[1] < MaxMsgs
    /\ Len(receiver) < MailboxCap
    /\ \E m \in OpsMessages :
          receiver' = Append(receiver,
              [kind |-> m.kind, id |-> 0, len |-> m.len, ext |-> 0,
               task |-> 1, seq |-> posted[1] + 1])
    /\ posted' = [posted EXCEPT ![1] = @ + 1]
    /\ UNCHANGED <<encVars, loopVars, handled, ops, txVars, chanVars>>

\* the peer adjusts the window of a channel it has confirmed
OpsReadArm ==
    /\ reads < MaxReads
    /\ \E pkt \in OpsPackets :
          /\ PeerSends(pkt)
          /\ pkt.b0 = CHANNEL_WINDOW_ADJUST => channels[pkt.id].confirmed
          /\ ReadPacket(pkt)

OpsNext ==
    \/ OpsPost
    \/ OpsReadArm
    \/ MailboxArm

SpecOps == OpsInit /\ [][OpsNext]_vars

(***************************************************************************)
(* Requests and their replies: the peer sends channel requests that ask    *)
(* for a reply or do not, user tasks post Success and Failure (and the     *)
(* other operations) for the channel in any number and order.              *)
(***************************************************************************)
ReplyPackets ==
    {[b0 |-> CHANNEL_REQUEST, short |-> FALSE, id |-> 0, want_reply |-> w] :
        w \in BOOLEAN}
    \cup {[b0 |-> CHANNEL_OPEN_CONFIRMATION, short |-> FALSE, id |-> 0,
           window |-> 2, maxp |-> 2]}

ReplyReadArm ==
    /\ reads < MaxReads
    /\ \E pkt \in ReplyPackets : PeerSends(pkt) /\ ReadPacket(pkt)

ReplyNext ==
    \/ OpsPost
    \/ ReplyReadArm
    \/ MailboxArm

SpecReply == OpsInit /\ [][ReplyNext]_vars

(***************************************************************************)
(* Channel::into_stream: the Channel becomes a ChannelStream and a task    *)
(* that bridges the two.  The stream side writes chunks, which the task    *)
(* receives on r_rx, and reads what the task sends on w_tx; a write of no  *)
(* bytes is a chunk of length 0.  One turn of the task's loop is a select  *)
(* over r_rx.recv() and self.wait(); while the task is in data(), eof() or *)
(* close() it polls neither.  task is where the task is: loop, data, eof,  *)
(* close, ended (it returned Ok) or failed (it returned an error).         *)
(* written and posts record every chunk the stream side wrote and every    *)
(* message the task posted.  data() of a chunk is one Data message of the  *)
(* chunk's length.                                                         *)
(***************************************************************************)
ChunkLens == {0, 1}

into_stream(hd) == [hd EXCEPT !.st = "stream", !.stream.task = "loop"]

IntoStream(h) ==
    /\ handles[h].st = "open"
    /\ handles' = [handles EXCEPT ![h] = into_stream(@)]
    /\ UNCHANGED <<receiver, posted>>
    /\ ChanUnchanged

\* the task holds r_rx until it returns
Bridging(h) == handles[h].stream.task \in {"loop", "data", "eof", "close"}

\* the stream side writes a chunk: it is queued for the task if the task
\* still has r_rx, and lost otherwise
StreamWrite(h) ==
    /\ handles[h].st = "stream"
    /\ ~handles[h].stream.dropped
    /\ Len(handles[h].stream.written) < MaxChunks
    /\ \E n \in ChunkLens :
          handles' = [handles EXCEPT
             ![h].stream.written = Append(@, n),
             ![h].stream.r_rx = IF Bridging(h) THEN Append(@, n) ELSE @]
    /\ UNCHANGED <<receiver, posted>>
    /\ ChanUnchanged

\* the stream side is dropped
StreamDrop(h) ==
    /\ handles[h].st = "stream"
    /\ ~handles[h].stream.dropped
    /\ handles' = [handles EXCEPT ![h].stream.dropped = TRUE]
    /\ UNCHANGED <<receiver, posted>>
    /\ ChanUnchanged

\* "data = r_rx.recv()": a chunk that is not empty goes to data(), an empty
\* one to eof() and close(), None (the stream side dropped) to close()
r_rx_recv(st) ==
    IF st.r_rx = << >>
    THEN [st EXCEPT !.task = "close"]
    ELSE IF Head(st.r_rx) # 0
    THEN [st EXCEPT !.task = "data", !.hold = Head(st.r_rx), !.r_rx = Tail(@)]
    ELSE [st EXCEPT !.task = "eof", !.r_rx = Tail(@)]

BridgeRecv(h) ==
    /\ handles[h].stream.task = "loop"
    /\ handles[h].stream.r_rx # << >> \/ handles[h].stream.dropped
    /\ handles' = [handles EXCEPT ![h].stream = r_rx_recv(@)]
    /\ UNCHANGED <<receiver, posted>>
    /\ ChanUnchanged

\* the task's data(), eof() or close(): send_msg posts the message when the
\* mailbox has room and fails with SendError when the session is gone; "?"
\* then returns the error from the task
BridgePost(h) ==
    LET st == handles[h].stream
        kind == CASE st.task = "data" -> "Data"
                  [] st.task = "eof" -> "Eof"
                  [] OTHER -> "Close"
        len == IF st.task = "data" THEN st.hold ELSE 0
        after == CASE st.task = "data" -> "loop"
                   [] st.task = "eof" -> "close"
                   [] OTHER -> "ended"
    IN  /\ st.task \in {"data", "eof", "close"}
        /\ IF pc = "done"
           THEN /\ handles' = [handles EXCEPT ![h].stream.task = "failed"]
                /\ UNCHANGED <<receiver, posted>>
           ELSE /\ Len(receiver) < MailboxCap
                /\ receiver' = Append(receiver,
                      [kind |-> kind, id |-> send_msg(handles[h], kind).id,
                       len |-> len, ext |-> 0, task |-> h,
                       seq |-> posted[h] + 1])
                /\ posted' = [posted EXCEPT ![h] = @ + 1]
                /\ handles' = [handles EXCEPT
                      ![h].stream.task = after,
                      ![h].stream.posts = Append(@, <<kind, len>>)]
        /\ ChanUnchanged

\* "msg = self.wait()": Data goes to w_tx, Eof sends an empty chunk and
\* breaks, None breaks, anything else is passed over; w_tx.send fails when
\* the stream side is dropped, and "?" returns the error from the task
wait_arm_closing(hd) ==
    IF hd.inbox = << >>
    THEN [hd EXCEPT !.stream.task = "ended"]
    ELSE LET ev == Head(hd.inbox)
             rest == [hd EXCEPT !.inbox = Tail(@), !.got = Append(@, ev)]
         IN  IF ev.kind \in {"Data", "Eof"}
             THEN IF hd.stream.dropped
                  THEN [rest EXCEPT !.stream.task = "failed"]
                  ELSE [rest EXCEPT
                          !.stream.w_tx = Append(@, ev.kind),
                          !.stream.task = IF ev.kind = "Eof" THEN "close" ELSE @]
             ELSE rest

wait_arm(hd) ==
    IF hd.inbox = << >>
    THEN [hd EXCEPT !.stream.task = "ended"]
    ELSE LET ev == Head(hd.inbox)
             rest == [hd EXCEPT !.inbox = Tail(@), !.got = Append(@, ev)]
         IN  IF ev.kind \in {"Data", "Eof"}
             THEN IF hd.stream.dropped
                  THEN [rest EXCEPT !.stream.task = "failed"]
                  ELSE [rest EXCEPT
                          !.stream.w_tx = Append(@, ev.kind),
                          !.stream.task = IF ev.kind = "Eof" THEN "ended" ELSE @]
             ELSE rest

BridgeWait(h) ==
    /\ handles[h].stream.task = "loop"
    /\ handles[h].inbox # << >> \/ ~SenderAlive(h)
    /\ handles' = [handles EXCEPT ![h] = wait_arm(@)]
    /\ UNCHANGED <<receiver, posted>>
    /\ ChanUnchanged

\* the peer's packets for the channel of the stream
StreamPackets ==
    {pkt \in ChanPackets : pkt.b0 = CHANNEL_OPEN_CONFIRMATION}
    \cup {[b0 |-> b, short |-> FALSE, id |-> c, echo |-> << >>,
           n |-> reads + 1] :
             b \in {CHANNEL_DATA, CHANNEL_EOF, CHANNEL_CLOSE},
             c \in 0..(IdSpace - 1)}

StreamReadArm ==
    /\ reads < MaxInbound
    /\ \E pkt \in StreamPackets : PeerSends(pkt) /\ ReadPacket(pkt)

StreamNext ==
    \/ ChanOpenSession(1)
    \/ ChanWaitConfirmation(1)
    \/ IntoStream(1)
    \/ StreamWrite(1)
    \/ StreamDrop(1)
    \/ BridgeRecv(1)
    \/ BridgePost(1)
    \/ BridgeWait(1)
    \/ StreamReadArm
    \/ MailboxArm

SpecStream == ChanInit /\ [][StreamNext]_vars

(***************************************************************************)
(* The public methods that post to the session mailbox.  A Handle posts    *)
(* Msg::Channel(id, ..) for data, extended_data, eof, channel_success,     *)
(* channel_failure, close, xon_xoff_request, exit_status_request and       *)
(* exit_signal_request.  The Channel<Msg> that Handle::channel_open_session *)
(* returns posts (self.id, msg) through send_msg for request_pty,          *)
(* request_shell, exec, signal, request_subsystem, request_x11, set_env,   *)
(* window_change, agent_forward, data, extended_data, eof and close.      *)
(***************************************************************************)
HandleMethods ==
    {"Data", "ExtendedData", "Eof", "Success", "Failure", "Close", "XonXoff",
     "ExitStatus", "ExitSignal"}

ChannelMethods ==
    {"RequestPty", "RequestShell", "Exec", "Signal", "RequestSubsystem",
     "RequestX11", "SetEnv", "WindowChange", "AgentForward", "Data",
     "ExtendedData", "Eof", "Close"}

\* a call of one of the methods for the confirmed channel 0
ApiPost ==
    /\ pc # "done"
    /\ posted[1] < MaxMsgs
    /\ Len(receiver) < MailboxCap
    /\ \E k \in HandleMethods \cup ChannelMethods :
          receiver' = Append(receiver,
              [kind |-> k, id |-> 0,
               len |-> IF k \in {"Data", "ExtendedData"} THEN 1 ELSE 0,
               ext |-> IF k = "ExtendedData" THEN 1 ELSE 0,
               task |-> 1, seq |-> posted[1] + 1])
    /\ posted' = [posted EXCEPT ![1] = @ + 1]
    /\ UNCHANGED <<encVars, loopVars, handled, ops, txVars, chanVars>>

ApiInit == OpsInit /\ channels[0].confirmed

ApiNext ==
    \/ ApiPost
    \/ MailboxArm

SpecApi == ApiInit /\ [][ApiNext]_vars

(***************************************************************************)
(* Global requests: the peer sends requests that ask for a reply or do     *)
(* not, and the application answers each with up to MaxCalls calls of      *)
(* request_success and request_failure in any order.                       *)
(***************************************************************************)
Calls ==
    UNION {[1..n -> {"success", "failure"}] : n \in 0..MaxCalls}

GlobalPackets ==
    {[b0 |-> GLOBAL_REQUEST, short |-> FALSE, want_reply |-> w, calls |-> c] :
        w \in BOOLEAN, c \in Calls}
    \cup {[b0 |-> NEWKEYS, short |-> FALSE]}

GlobalReadArm ==
    /\ reads < MaxReads
    /\ \E pkt \in GlobalPackets :
          /\ pkt.b0 = NEWKEYS => rekey # None
          /\ ReadPacket(pkt)

SpecGlobal == OpsInit /\ [][GlobalReadArm]_vars

(***************************************************************************)
(* The mailbox under fair scheduling.  Two tasks post to the bounded       *)
(* mailbox of an authenticated session with channel 0 confirmed; the peer  *)
(* ends every key exchange with NEWKEYS.  tokio::select! without "biased" polls its arms  *)
(* in random order, so an arm that is ready again and again is taken: SF   *)
(* on the mailbox arm.  The bounded queue wakes the senders waiting for    *)
(* room in the order they came, so none waits for ever while room keeps    *)
(* coming: SF on each task's post.                                         *)
(***************************************************************************)
\* the peer's NEWKEYS ends the key exchange
LiveReadArm ==
    /\ rekey # None
    /\ ReadPacket([b0 |-> NEWKEYS, short |-> FALSE])

\* channel 0 is confirmed with a window that takes all the tasks' data
LiveInit ==
    /\ NewBuffers
    /\ LoopIdle
    /\ TxIdle
    /\ ChanIdle
    /\ NoClock
    /\ state = Authenticated
    /\ ops = << >>
    /\ encrypted = TRUE
    /\ rekey = None
    /\ exchange = TRUE
    /\ write = << >>
    /\ channels = (0 :> NewChannelRecord(0, 4 * MaxMsgs, 3, TRUE))

LiveNext ==
    \/ \E t \in Tasks : Post(t)
    \/ LiveReadArm
    \/ MailboxArm

\* the mailbox arm of the select is ready: ENABLED MailboxArm
MailboxReady == pc = "select" /\ ~is_rekeying /\ receiver # << >>

\* strong fairness of the mailbox arm, SF_vars(MailboxArm) with its ENABLED
\* written out as MailboxReady, and strong fairness of each task's post
SpecLive ==
    /\ LiveInit
    /\ [][LiveNext]_vars
    /\ []<>MailboxReady => []<><<MailboxArm>>_vars
    /\ \A t \in Tasks : SF_vars(Post(t))

\* q is an initial part of r
IsPrefix(q, r) == Len(q) <= Len(r) /\ SubSeq(r, 1, Len(q)) = q

\* every packet the session has emitted: queued, sealed or written
Emitted == write \o write_buffer.buffer \o wire

(***************************************************************************)
(* C1.  While a rekey is running, or while there is no encrypted state,    *)
(* no step takes a message from the session mailbox: the messages already  *)
(* queued stay at the front of the mailbox in their order, and none is     *)
(* handled.                                                                *)
(***************************************************************************)
C1_RekeyGate ==
    [][ (~encrypted \/ rekey # None) =>
            /\ handled' = handled
            /\ IsPrefix(receiver, receiver') ]_vars

\* a rekey is running, a packet was read meanwhile, and a message waits
C1_Witness ==
    /\ encrypted
    /\ rekey # None
    /\ pending_reads # << >>
    /\ receiver # << >>
    /\ pc = "select"

LimitCrossed ==
    /\ handled' # handled
    /\ write_buffer.bytes < RekeyWriteLimit
    /\ write_buffer'.bytes >= RekeyWriteLimit
    /\ receiver' # << >>
    /\ pc' = "select"

C4_RekeyOrdering ==
    /\ [][ LimitCrossed =>
              /\ rekey' # None
              /\ Len(wire') > Len(wire) + 1
              /\ wire'[Len(wire')].op = KEXINIT
              /\ \A j \in (Len(wire) + 1)..(Len(wire') - 1) : IsData(wire'[j]) ]_vars
    /\ [](\A i, j \in 1..Len(wire) :
              (i < j /\ wire[i].op = KEXINIT /\ IsData(wire[j])) =>
                  /\ wire[j].at.rekey = None
                  /\ wire[j].at.era > wire[i].at.era)

\* the first message's DATA reached the limit with the second message
\* queued: the wire holds that DATA and then the KEXINIT
C4_Witness ==
    /\ rekey # None
    /\ receiver # << >>
    /\ handled[1] + handled[2] = 1
    /\ reads = 0
    /\ Len(wire) = 2
    /\ IsData(wire[1])
    /\ wire[2].op = KEXINIT

(***************************************************************************)
(* C7.  The mailbox never holds more than its capacity, and a send is not  *)
(* possible while it is full; for every task, the messages it has posted   *)
(* and the loop has not handled are in the mailbox, each once, in the      *)
(* order of posting: the loop has handled exactly the first handled[t]     *)
(* of them.                                                                *)
(***************************************************************************)
RECURSIVE SeqsOf(_, _)
SeqsOf(q, t) ==
    IF q = << >> THEN << >>
    ELSE IF Head(q).task = t THEN <<Head(q).seq>> \o SeqsOf(Tail(q), t)
    ELSE SeqsOf(Tail(q), t)

C7_MailboxFifo ==
    /\ Len(receiver) <= MailboxCap
    /\ \A t \in Tasks :
          /\ handled[t] <= posted[t]
          /\ SeqsOf(receiver, t) =
                 [i \in 1..(posted[t] - handled[t]) |-> handled[t] + i]
          /\ Len(receiver) = MailboxCap => ~ENABLED Post(t)

\* both tasks have had a message handled and each has another one waiting
\* in the full mailbox
C7_Witness ==
    /\ Len(receiver) = MailboxCap
    /\ \A t \in Tasks : handled[t] >= 1 /\ SeqsOf(receiver, t) # << >>

(***************************************************************************)
(* C10.  The iteration that reads a DISCONNECT leaves the loop at once:    *)
(* the handler is not called, no mailbox message is handled, nothing is    *)
(* flushed or written; afterwards no message is handled and the handler    *)
(* is not called; the final drain starts only with the writer shut down;   *)
(* and run returns Ok only after a read of the drain returned 0 bytes.     *)
(***************************************************************************)
C10_PeerDisconnect ==
    /\ [][ (exit_by = None /\ exit_by' = "disconnect") =>
              /\ pc' = "shutdown"
              /\ replies' = replies
              /\ handled' = handled
              /\ IsPrefix(receiver, receiver')
              /\ UNCHANGED <<encVars, wire>> ]_vars
    /\ [][ exit_by = "disconnect" =>
              /\ replies' = replies
              /\ handled' = handled
              /\ UNCHANGED <<encVars, wire>> ]_vars
    /\ [](exit_by = "disconnect" /\ pc = "drain" => writer_shut)
    /\ [](exit_by = "disconnect" /\ result = "Ok" =>
              writer_shut /\ drain_n = "eof")

\* run has returned Ok after a DISCONNECT that found a message in the
\* mailbox and a read of the drain that returned a packet
C10_Witness ==
    /\ exit_by = "disconnect"
    /\ result = "Ok"
    /\ receiver # << >>
    /\ reads = 2

(***************************************************************************)
(* C6.  Every chunk that data / extended_data posts is at least 1 byte, no *)
(* larger than the cell was when the chunk was taken out of it and no      *)
(* larger than the handle's max_packet_size; the cell never goes below 0;  *)
(* with bytes left to copy the call waits exactly while the cell is 0, so  *)
(* it goes on once a WindowAdjusted update has raised the cell; and the    *)
(* call never ends in an error.                                            *)
(***************************************************************************)
C6_WindowCell ==
    /\ \A i \in 1..Len(chunks) :
          /\ 1 <= chunks[i].len
          /\ chunks[i].len <= chunks[i].cell
          /\ chunks[i].len <= chunks[i].maxp
    /\ window_size >= 0
    /\ tx.pc \in {"idle", "copy", "send", "done", "cancelled"}
    /\ (tx.pc = "copy" /\ tx.buf > 0) =>
          (ENABLED TxMkMsg <=> window_size > 0)

\* the cell started at 0; the call waited, window adjustments raised the
\* cell, and two chunks have used up all of it: the call waits again
C6_Witness ==
    /\ tx.channel.window_size = 0
    /\ adjusted > 0
    /\ Len(chunks) >= 2
    /\ SumLen(chunks) = adjusted
    /\ window_size = 0
    /\ tx.pc = "copy"
    /\ tx.buf > 0

(***************************************************************************)
(* C8 as stated.  After a cancellation inside data() the chunk being sent  *)
(* is not in the mailbox, the chunks posted before are, and the cell is    *)
(* what the posted chunks and the window adjustments alone make it: the    *)
(* cancelled step has left no trace.  After a cancellation inside send_msg *)
(* the message is not in the mailbox.                                      *)
(***************************************************************************)
C8_CancellationAtomicity ==
    /\ Len(SeqsOf(receiver, 1)) + handled[1] = Len(chunks)
    /\ Len(SeqsOf(receiver, 2)) + handled[2] = posted[2]
    /\ tx.pc = "cancelled" =>
          window_size = tx.channel.window_size + adjusted - SumLen(chunks)

\* the cancellation that breaks it: data() had taken its chunk out of the
\* cell and was waiting for room in the full mailbox
C8_Leak ==
    /\ tx.pc = "cancelled"
    /\ tx.chunk > 0
    /\ Len(receiver) = MailboxCap
    /\ window_size = tx.channel.window_size + adjusted - SumLen(chunks) - tx.chunk

(***************************************************************************)
(* C9.  The inbound queue of a handle holds only events of the channel     *)
(* that was opened for it, the id the handle gets is the id of that        *)
(* channel, and every channel message in the session mailbox carries the   *)
(* id of the handle that posted it.                                        *)
(***************************************************************************)
C9_ChannelIsolation ==
    /\ \A h \in DOMAIN handles :
          /\ \A i \in 1..Len(handles[h].inbox) :
                <<handles[h].inbox[i].chan>> = handles[h].opened
          /\ handles[h].id # << >> => handles[h].id = handles[h].opened
    /\ \A i \in 1..Len(receiver) :
          receiver[i].kind \in {"Eof", "Close"} =>
              handles[receiver[i].task].id = <<receiver[i].id>>

\* an id is in use for the second time: the Open of its second use waits in
\* the later handle's queue while the earlier handle, which still holds the
\* id, has its Close in the mailbox, and a third handle holds the other id
C9_Witness ==
    \E h1, h2, h3 \in DOMAIN handles :
        /\ h1 # h2
        /\ handles[h1].id # << >>
        /\ handles[h3].id # << >>
        /\ handles[h3].id # handles[h1].id
        /\ handles[h2].opened = handles[h1].id
        /\ handles[h2].inbox # << >>
        /\ \E i \in 1..Len(receiver) :
              receiver[i].kind \in {"Eof", "Close"} /\ receiver[i].task = h1

(***************************************************************************)
(* C11.  An I/O error of a read or of a write inside the loop is returned  *)
(* from run only after the cleanup: the writer has been shut down and the  *)
(* reader drained to a read of 0 bytes.  exit_by is None exactly when run  *)
(* has not left the loop through a break.                                  *)
(***************************************************************************)
C11_CleanExitOnIoError ==
    (result = "Err" /\ exit_by = None) => (writer_shut /\ drain_n = "eof")

\* run has returned the error of a failed read or write straight from the
\* loop: the writer was never shut down and the reader never drained
C11_NoCleanup ==
    /\ pc = "done"
    /\ result = "Err"
    /\ exit_by = None
    /\ ~writer_shut
    /\ drain_n = None
    /\ reads >= 1

(***************************************************************************)
(* C12.  When run has ended after an inbound packet that could not be      *)
(* decompressed, or with an Inconsistent error raised while handling a     *)
(* message, a DISCONNECT packet has been written to the transport.         *)
(***************************************************************************)
C12_DisconnectOnProtocolError ==
    (pc = "done" /\ (exit_by = "decompress" \/ result = "Inconsistent")) =>
        \E i \in 1..Len(wire) : wire[i].op = DISCONNECT

\* run has returned Ok after a packet that could not be decompressed: the
\* writer was shut down with the CHANNEL_OPEN of a handle as the only packet
\* ever written
C12_NoDisconnect ==
    /\ pc = "done"
    /\ exit_by = "decompress"
    /\ result = "Ok"
    /\ writer_shut
    /\ Len(wire) = 1
    /\ wire[1].op = CHANNEL_OPEN

(***************************************************************************)
(* C13.  The loop leaves through the timer arm only when a whole           *)
(* connection_timeout has passed since an arm of the select last           *)
(* completed (or since the loop began): the timer starts anew in every     *)
(* iteration.  When that time has passed in the select the timer arm is    *)
(* ready.  After a timeout the loop is left, the final drain runs with the *)
(* writer shut down, and no DISCONNECT packet is queued or written.        *)
(***************************************************************************)
C13_IdleTimeout ==
    /\ (pc = "select" /\ clock.idle = clock.delay) => ENABLED TimeoutArm
    /\ exit_by = "timeout" =>
          /\ pc # "select"
          /\ clock.idle = clock.delay
          /\ (pc = "drain" \/ result = "Ok") => writer_shut
          /\ \A i \in 1..Len(Emitted) : Emitted[i].op # DISCONNECT

\* run has returned Ok after a timeout that ended a rekey in progress with
\* a message still waiting in the mailbox, after earlier iterations had
\* handled a packet and a message
C13_Witness ==
    /\ exit_by = "timeout"
    /\ result = "Ok"
    /\ writer_shut
    /\ rekey # None
    /\ receiver # << >>
    /\ handled[1] >= 1
    /\ replies >= 1
    /\ clock.idle = clock.delay

\* the session has emitted a packet of this opcode
Sent(b) == \E i \in 1..Len(Emitted) : Emitted[i].op = b

\* both sides have sent CHANNEL_CLOSE for channel 0: the server's is among
\* the packets emitted, and the peer's has taken the record off the table
MutualClose == 0 \notin DOMAIN channels /\ Sent(CHANNEL_CLOSE)

(***************************************************************************)
(* C14.  Once both sides have sent CHANNEL_CLOSE for a channel, handling   *)
(* any further message for it yields an Inconsistent error.                *)
(***************************************************************************)
C14_InconsistentAfterClose ==
    [][ (MutualClose /\ handled' # handled) => result' = "Inconsistent" ]_vars

\* after the mutual close an operation on the closed id waits in the
\* mailbox, and the mailbox arm is enabled
C14_OpOnClosedId ==
    /\ MutualClose
    /\ pc = "select"
    /\ receiver # << >>
    /\ receiver[1].id = 0
    /\ receiver[1].kind = "ExitStatus"
    /\ ENABLED MailboxArm

(***************************************************************************)
(* C15.  A channel record is off the table only when both the server's and *)
(* the peer's CHANNEL_CLOSE have been sent: never after the peer's alone.  *)
(***************************************************************************)
C15_RemovedIffMutualClose ==
    0 \notin DOMAIN channels => Sent(CHANNEL_CLOSE)

\* the peer's CHANNEL_CLOSE has emptied the table, the server has sent no
\* CHANNEL_CLOSE, and the Close a task posted waits in the mailbox
C15_RemovedByPeerClose ==
    /\ channels = << >>
    /\ ~Sent(CHANNEL_CLOSE)
    /\ pc = "select"
    /\ receiver # << >>
    /\ receiver[1].kind = "Close"

\* the opcodes of requests, replies and data
Guarded ==
    {CHANNEL_REQUEST, CHANNEL_SUCCESS, CHANNEL_FAILURE, CHANNEL_DATA,
     CHANNEL_EXTENDED_DATA}

Unconfirmed == 0 \in DOMAIN channels /\ ~channels[0].confirmed

(***************************************************************************)
(* C16.  While a channel is unconfirmed no request, reply or data packet   *)
(* has been emitted for it, and handling a reply, a request or data for it *)
(* traps: run ends in a panic and the step emits nothing.                  *)
(***************************************************************************)
C16_NothingBeforeConfirmation ==
    /\ [](Unconfirmed =>
            \A i \in 1..Len(Emitted) : Emitted[i].op \notin Guarded)
    /\ [][ (Unconfirmed /\ handled' # handled
               /\ receiver[1].kind \notin {"Eof", "Close"}) =>
              /\ result' = "Panic"
              /\ Emitted' = Emitted ]_vars

\* run has ended in a panic on the first message for the unconfirmed
\* channel, with nothing emitted, while a second message waits
C16_Witness ==
    /\ Unconfirmed
    /\ result = "Panic"
    /\ handled[1] = 1
    /\ Emitted = << >>
    /\ receiver # << >>
    /\ receiver[1].kind = "Data"

(***************************************************************************)
(* C17.  On the wire no CHANNEL_DATA or CHANNEL_EXTENDED_DATA packet       *)
(* comes after a CHANNEL_EOF (there is one channel).                       *)
(***************************************************************************)
C17_NoDataAfterEof ==
    \A i, j \in 1..Len(wire) :
        (i < j /\ wire[i].op = CHANNEL_EOF) => ~IsData(wire[j])

\* the wire holds a CHANNEL_EOF and, right after it, a CHANNEL_DATA packet
\* of the same channel
C17_DataAfterEof ==
    /\ Len(wire) >= 2
    /\ wire[1].op = CHANNEL_EOF
    /\ wire[2].op = CHANNEL_DATA
    /\ wire[2].ch = wire[1].ch
    /\ handled[1] = 2

\* the Open events among a sequence of events
Opens(q) == SelectSeq(q, LAMBDA ev : ev.kind = "Open")

Refused(h) == \E i \in 1..Len(handles[h].sent) :
                 handles[h].sent[i].kind = "OpenFailure"

\* this step of the session takes away the record of an unconfirmed channel
Refusal == \E c \in DOMAIN channels :
              ~channels[c].confirmed /\ c \notin DOMAIN channels'

Serials(q) ==
    LET d == SelectSeq(q, LAMBDA ev : ev.kind = "Data")
    IN  [i \in 1..Len(d) |-> d[i].n]

(***************************************************************************)
(* C20: the events a Channel's owner has been handed by                    *)
(* wait_channel_confirmation and Channel::wait, followed by those still    *)
(* queued, are the events the session posted to that queue, each once and  *)
(* in the order of posting, which is the order of arrival on the wire;     *)
(* wait has returned None only when the session has dropped its sender     *)
(* for the channel and every event posted before that has been returned.   *)
(***************************************************************************)
C20_InboundDelivery ==
    \A h \in Handles :
       LET hd == handles[h]
       IN  /\ hd.got \o hd.inbox = hd.sent
           /\ \A i, j \in 1..Len(Serials(hd.sent)) :
                 i < j => Serials(hd.sent)[i] < Serials(hd.sent)[j]
           /\ hd.st = "ended" => /\ ~SenderAlive(h)
                                 /\ hd.inbox = << >>
                                 /\ hd.got = hd.sent

C20_Witness ==
    /\ handles[1].st = "ended"
    /\ Len(handles[1].got) = 3
    /\ Serials(handles[1].got) = <<2, 3>>
    /\ pc = "select"
    /\ handles[2].st = "open"

\* channel c is open and the session holds the sender of its inbound queue
Delivering(c) ==
    /\ c \in DOMAIN channels
    /\ channels[c].confirmed
    /\ c \in DOMAIN session_channels

(***************************************************************************)
(* C21: the session never waits for a consumer.  While the loop selects    *)
(* it can take the next data packet of every open channel whatever that    *)
(* channel's inbound queue already holds, and while events lie unread in   *)
(* a task's queue it can still take the oldest mailbox message whenever no *)
(* rekey is running; so there is no state in which the session waits on a  *)
(* user task's queue while the user task waits on the session's.           *)
(***************************************************************************)
Unread == \E h \in Handles : handles[h].inbox # << >>

C21_NeverBlocksOnConsumer ==
    pc = "select" =>
       /\ \A c \in 0..(IdSpace - 1) :
             (Delivering(c) /\ reads < MaxInbound) => ENABLED DataRead(c)
       /\ (Unread /\ receiver # << >> /\ ~is_rekeying) => ENABLED MailboxArm

\* two events wait in the queue of a task that has not called wait, a
\* message waits in the mailbox, and the loop goes on
C21_Witness ==
    /\ pc = "select"
    /\ handles[1].st = "open"
    /\ Len(handles[1].got) = 1
    /\ Len(handles[1].inbox) = 2
    /\ receiver # << >>
    /\ Delivering(1)
    /\ reads < MaxInbound

\* packets sealed into the write buffer so far, written out or not
Sealed == Len(write_buffer.buffer) + Len(wire)

\* this step completes a read that yields a packet
PacketRead ==
    /\ reads' = reads + 1
    /\ ~(exit_by = None /\ exit_by' = "eof")

(***************************************************************************)
(* C22: a new SSHBuffer has sequence number 0; in every step the write     *)
(* buffer's sequence number advances, modulo 2^32, by the number of        *)
(* packets sealed in the step, and the read buffer's by one exactly when   *)
(* the step reads a packet; no step changes them otherwise: not a rekey,   *)
(* not the clearing of the write buffer after a write, and not the         *)
(* identification line.                                                    *)
(***************************************************************************)
C22_SequenceNumbers ==
    /\ [](/\ SSHBuffer_new.seqn = Wrapping(0)
          /\ send_ssh_id(write_buffer, "SSH-2.0-russh").seqn
                = write_buffer.seqn)
    /\ [][ /\ Sealed' >= Sealed
           /\ write_buffer'.seqn
                = wrapping_add(write_buffer.seqn, Sealed' - Sealed)
           /\ buffer'.seqn = IF PacketRead THEN wrapping_inc(buffer.seqn)
                             ELSE buffer.seqn ]_vars

\* both numbers have gone round: the write side wrapped to 0 and went on
\* through a rekey, the read side carried into the high half
C22_Witness ==
    /\ Len(wire) >= 3
    /\ write_buffer.seqn = Wrapping(Len(wire) - 2)
    /\ write_buffer.buffer = << >>
    /\ kex_done = 1
    /\ buffer.seqn = [hi |-> 1, lo |-> 1]

\* the session after the handler has been given packet pkt and the
\* iteration has ended with flush
Handled(pkt) == flush(reply(Cur, pkt))

\* what the handler can change: the channel table, the packets held back,
\* the key exchange, the bytes counted since the last one
SessionState ==
    <<channels, pending_reads, rekey, exchange, kex_done, write_buffer.bytes>>

\* reading is armed again: the loop selects (or run has returned the error
\* of a failed write), the same buffer has counted the packet, and the read
\* has the key the session's slot held when the handler was done
Rearmed ==
    /\ pc' = "select" \/ (pc' = "done" /\ result' = "Err")
    /\ buffer' = start_reading(buffer, FALSE)
    /\ cipher'.remote_to_local = clear_Key
    /\ cipher'.opening_cipher = Key(kex_done')

\* a step of the read arm that has read the packet pkt, as the
\* specification routes it: low says what happens to a first byte <= 4
Routed(pkt, low) ==
    ReadPacket(pkt) =>
       IF pkt.short THEN TRUE
       ELSE IF pkt.b0 = DISCONNECT
       THEN /\ pc' = "shutdown" /\ exit_by' = "disconnect"
            /\ replies' = replies
            /\ UNCHANGED <<encVars, wire>>
       ELSE IF pkt.b0 <= 4
       THEN low /\ Rearmed
       ELSE /\ replies' = replies + 1
            /\ SessionState' = <<Handled(pkt).chs, Handled(pkt).pending,
                            Handled(pkt).rekey, Handled(pkt).exchange,
                            Handled(pkt).era, Handled(pkt).wb.bytes>>
            /\ Rearmed

History == wire \o write_buffer.buffer

\* the arms that leave the loop by break on a peer's DISCONNECT, on the end
\* of the stream or on the idle timeout
CleanExits == {"disconnect", "eof", "timeout"}

(***************************************************************************)
(* C24: the write buffer is empty whenever the loop waits in select; the   *)
(* sealed packets grow only at the end, the transport has received a       *)
(* prefix of them and, whenever the loop is back in select, all of them,   *)
(* each once (as many as the sequence number has counted); and when the    *)
(* loop has been left by DISCONNECT, end of stream or timeout no sealed    *)
(* packet is left in the write buffer.                                     *)
(***************************************************************************)
C24_WriteBufferDiscipline ==
    /\ [](pc = "select" => write_buffer.buffer = << >>)
    /\ []((pc # "select" /\ exit_by \in CleanExits)
             => write_buffer.buffer = << >>)
    /\ [](Len(History) = write_buffer.seqn.lo
             /\ write_buffer.seqn.hi = 0)
    /\ [][ /\ IsPrefix(History, History')
           /\ IsPrefix(wire, wire')
           /\ pc' = "select" => wire' = History' ]_vars

\* the loop has written data and a KEXINIT and was then left by the peer's
\* DISCONNECT
C24_Witness ==
    /\ pc = "shutdown"
    /\ exit_by = "disconnect"
    /\ Len(wire) >= 3
    /\ \E i \in 1..Len(wire) : wire[i].op = KEXINIT
    /\ \E i \in 1..Len(wire) : wire[i].op = CHANNEL_DATA

\* the session that Session::flush is called with in this step, if the step
\* is an iteration of the loop that reaches its end
Flushing(s) ==
    \/ \E pkt \in InboundPackets :
          /\ ReadPacket(pkt)
          /\ ~pkt.short /\ pkt.b0 # DISCONNECT
          /\ s = IF to_handler(pkt.b0) THEN reply(Cur, pkt) ELSE Cur
    \/ /\ MailboxArm
       /\ pc' = "select" \/ result' = "Err"
       /\ s = MsgSession(recv(receiver).msg)

\* the sessions a step can call Session::flush with
Flushable ==
    {reply(Cur, pkt) : pkt \in InboundPackets} \cup {Cur}
       \cup (IF receiver # << >> THEN {MsgSession(recv(receiver).msg)} ELSE {})

KexInits(q) == {i \in 1..Len(q) : q[i].op = KEXINIT}

(***************************************************************************)
(* C25: when Session::flush is called with an encrypted state whose flush  *)
(* has the byte counter at the limit, and no rekey is running, then after  *)
(* it rekey is set and a KEXINIT is the last packet sealed; when a rekey   *)
(* is running it seals the queued packets and no KEXINIT, and rekey is as  *)
(* it was; and the sealed packets hold at most one KEXINIT for each key    *)
(* exchange.                                                               *)
(***************************************************************************)
C25_RekeyInitiation ==
    /\ [][ \A s \in Flushable : Flushing(s) =>
              LET e == enc_flush(s)
              IN  /\ (s.enc /\ needs_rekey(e) /\ s.rekey = None) =>
                        /\ rekey' # None
                        /\ History' = Append(wire \o e.wb.buffer,
                                        KexInitPacket(Stamp(None, s.era)))
                  /\ (s.enc /\ s.rekey # None) =>
                        /\ rekey' = s.rekey
                        /\ History' = wire \o e.wb.buffer ]_vars
    /\ [](\A i, j \in KexInits(History) :
             i < j => History[i].at.era < History[j].at.era)

\* the data of a message has reached the limit and the flush has started a
\* rekey; a packet read after that was held and no second KEXINIT was sent
C25_Witness ==
    /\ pc = "select"
    /\ rekey # None
    /\ write_buffer.bytes >= RekeyWriteLimit
    /\ pending_reads # << >>
    /\ Len(wire) >= 2
    /\ wire[Len(wire)].op = KEXINIT
    /\ wire[Len(wire) - 1].op = CHANNEL_DATA

\* the reply packets among the packets q, by their places
Replies(q) == {i \in 1..Len(q) : q[i].op \in {CHANNEL_SUCCESS, CHANNEL_FAILURE}}

\* this step handles the message Success or Failure that is first in the
\* mailbox
Replying(msg) ==
    /\ receiver # << >>
    /\ msg = recv(receiver).msg
    /\ msg.kind \in {"Success", "Failure"}
    /\ MailboxArm

\* the channel of the table that waits for the reply to a request
Asked(c) ==
    c \in DOMAIN channels /\ channels[c].confirmed /\ channels[c].wants_reply

OpeningFor(h) ==
    /\ receiver # << >>
    /\ recv(receiver).msg.kind = "ChannelOpenSession"
    /\ recv(receiver).msg.sender = h
    /\ MailboxArm

\* an id was allocated, one CHANNEL_OPEN with that id and the configured
\* window and packet size was sealed (and at most the KEXINIT of a rekey
\* after it), and the sender was registered under the id
OpenedFor(h) ==
    \E id \in 0..(IdSpace - 1) :
       /\ id \notin DOMAIN channels
       /\ DOMAIN channels' = DOMAIN channels \cup {id}
       /\ ~channels'[id].confirmed
       /\ Len(History') > Len(History)
       /\ \A i \in (Len(History) + 2)..Len(History') :
             History'[i].op # CHANNEL_OPEN
       /\ LET p == History'[Len(History) + 1]
          IN  /\ p.op = CHANNEL_OPEN
              /\ p.ch = id
              /\ p.window = config.window_size
              /\ p.maxp = config.maximum_packet_size
       /\ DOMAIN session_channels' = DOMAIN session_channels \cup {id}
       /\ session_channels'[id] = h

\* nothing was allocated, emitted or registered
NothingOpened ==
    /\ channels' = channels
    /\ last_channel_id' = last_channel_id
    /\ History' = History
    /\ write' = write
    /\ session_channels' = session_channels

OpenHandled(after) ==
    \A h \in Handles : OpeningFor(h) =>
       IF encrypted /\ state \in {Authenticated, InitCompression}
       THEN OpenedFor(h)
       ELSE NothingOpened /\ after

(***************************************************************************)
(* C27 as stated: handling a ChannelOpenSession message allocates an id,   *)
(* seals one CHANNEL_OPEN with that id and the configured window_size and  *)
(* maximum_packet_size and registers the reply sender under the id; when   *)
(* the connection is not authenticated nothing is allocated, emitted or    *)
(* registered and the loop is back in select for the later messages.       *)
(***************************************************************************)
C27_OpenMessage == [][ OpenHandled(pc' = "select") ]_vars

\* the open before authentication ended run with Error::Inconsistent while
\* the message of another handle was still in the mailbox
C27_SessionLost ==
    /\ pc = "done"
    /\ result = "Inconsistent"
    /\ receiver # << >>
    /\ channels = << >>
    /\ wire = << >>

\* the ids from the one after a up to b, going round the id space
Upto(a, b) ==
    LET d == IF b = a THEN IdSpace ELSE (b - a + IdSpace) % IdSpace
    IN  {(a + k) % IdSpace : k \in 1..d}

\* this step allocates a channel id: it handles the open message of a handle
Allocating == \E h \in Handles : OpeningFor(h)

(***************************************************************************)
(* C28: the id a step allocates is not in the channel table before the     *)
(* step; it is the first id after the one allocated last, going up and     *)
(* round the id space, that is not live (every id passed over is live);    *)
(* the channels and the registrations that were there stay as they are;    *)
(* and every live id belongs to one handle, so two open channels never     *)
(* have the same id.                                                       *)
(***************************************************************************)
C28_IdAllocation ==
    /\ [][ Allocating =>
              LET id == last_channel_id'
              IN  /\ id \notin DOMAIN channels
                  /\ DOMAIN channels' = DOMAIN channels \cup {id}
                  /\ Upto(last_channel_id, id) \ {id} \subseteq DOMAIN channels
                  /\ \A c \in DOMAIN channels : channels'[c] = channels[c]
                  /\ \A c \in DOMAIN session_channels :
                        session_channels'[c] = session_channels[c] ]_vars
    /\ [](\A c \in DOMAIN channels :
             c \in DOMAIN session_channels =>
                Cardinality({h \in Handles :
                                /\ handles[h].opened = <<c>>
                                /\ session_channels[c] = h}) = 1)

\* the counter has gone round: handle 3 was given id 0, which handle 2 had
\* until the peer closed it, and the live id 1 of handle 1 was passed over
C28_Witness ==
    /\ handles[1].opened = <<1>>
    /\ handles[2].opened = <<0>>
    /\ handles[3].opened = <<0>>
    /\ DOMAIN channels = {0, 1}
    /\ session_channels[0] = 3
    /\ session_channels[1] = 1

\* this step reads the packet pkt and goes on to route it
Routing(pkt) ==
    /\ ReadPacket(pkt)
    /\ ~pkt.short
    /\ pkt.b0 # DISCONNECT

(***************************************************************************)
(* C29: whenever run is not in the handler, the session's slot             *)
(* remote_to_local holds the placeholder clear::Key and the read holds the *)
(* opening key of the last key exchange; the handler is called with the    *)
(* two exchanged, the key in the session and the placeholder outside; the  *)
(* read armed after the handler has the key the handler left in the slot,  *)
(* which after the NEWKEYS that ends a rekey is the new key; and a packet  *)
(* that does not go to the handler leaves both where they were.            *)
(***************************************************************************)
C29_CipherOwnership ==
    /\ [](/\ cipher.remote_to_local = clear_Key
          /\ cipher.opening_cipher = Key(kex_done))
    /\ [][ \A pkt \in InboundPackets : Routing(pkt) =>
              IF to_handler(pkt.b0)
              THEN LET inside == swap(cipher)
                       left == install(inside, Cur, reply(Cur, pkt))
                   IN  /\ inside.remote_to_local = Key(kex_done)
                       /\ inside.opening_cipher = clear_Key
                       /\ left.opening_cipher = clear_Key
                       /\ cipher'.opening_cipher = left.remote_to_local
                       /\ cipher'.remote_to_local = clear_Key
                       /\ (pkt.b0 = NEWKEYS /\ rekey # None) =>
                             /\ cipher'.opening_cipher = Key(kex_done + 1)
                             /\ cipher'.opening_cipher # cipher.opening_cipher
              ELSE cipher' = cipher ]_vars

\* a rekey has been completed: the read that is armed has the new key
C29_Witness ==
    /\ pc = "select"
    /\ reads = 2
    /\ rekey = None
    /\ kex_done = 1
    /\ cipher.opening_cipher = Key(1)
    /\ cipher.remote_to_local = clear_Key

\* what the task is to post for what the stream side has done: a Data for
\* every chunk before the first empty one, then Eof and Close if there is
\* an empty chunk, or Close alone if the stream side was dropped without one
Expected(st) ==
    LET w == st.written
        zeros == {i \in 1..Len(w) : w[i] = 0}
        first == IF zeros = {} THEN Len(w) + 1
                 ELSE CHOOSE i \in zeros : \A j \in zeros : i <= j
    IN  [i \in 1..(first - 1) |-> <<"Data", w[i]>>]
           \o (IF zeros # {} THEN << <<"Eof", 0>>, <<"Close", 0>> >>
               ELSE IF st.dropped THEN << <<"Close", 0>> >>
               ELSE << >>)

(***************************************************************************)
(* C30 as stated: the messages the bridging task has posted are an initial *)
(* part of a Data for every non-empty chunk of the stream side in order,   *)
(* then Eof and Close for the first empty chunk or Close alone for a       *)
(* dropped stream side, and while the session runs the task does not       *)
(* return before it has posted all of them.                                *)
(***************************************************************************)
C30_StreamOutbound ==
    LET st == handles[1].stream
    IN  /\ IsPrefix(st.posts, Expected(st))
        /\ (st.task \in {"ended", "failed"} /\ pc # "done")
              => st.posts = Expected(st)

\* the peer's EOF has ended the task: the chunk and the empty chunk the
\* stream side wrote are not forwarded, and the channel is not closed
C30_BridgeEnded ==
    /\ pc = "select"
    /\ handles[1].stream.task = "ended"
    /\ handles[1].stream.w_tx = <<"Eof">>
    /\ ~handles[1].stream.dropped
    /\ handles[1].stream.written = <<1, 0>>
    /\ handles[1].stream.posts = << >>
    /\ 1 \in DOMAIN channels

\* the messages that have an arm of their own in the mailbox dispatch
SpecificArms ==
    {"Data", "ExtendedData", "Eof", "Close", "Success", "Failure", "XonXoff",
     "ExitStatus", "ExitSignal", "WindowAdjusted", "ChannelOpenSession"}

(***************************************************************************)
(* C31 as stated: every message a public method of Handle or of a          *)
(* server-side Channel posts has an arm of its own in the mailbox          *)
(* dispatch, and run never ends in the panic of the catch-all arm.         *)
(***************************************************************************)
C31_CatchAllUnreachable ==
    /\ \A i \in 1..Len(receiver) : receiver[i].kind \in SpecificArms
    /\ result # "Panic"

\* Channel::request_shell was called: the loop took its message and trapped
C31_Trapped ==
    /\ pc = "done"
    /\ result = "Panic"
    /\ handled[1] = 1
    /\ posted[1] = 1
    /\ channels[0].confirmed
    /\ wire = << >>

\* the global-request replies among the packets q, in their order
Answers(q) ==
    SelectSeq([i \in 1..Len(q) |-> q[i].op],
              LAMBDA o : o \in {REQUEST_SUCCESS, REQUEST_FAILURE})

\* the replies that the i-th call and the calls after it put on the wire,
\* for a request whose reply-requested flag is want
RECURSIVE AnswersFrom(_, _, _)
AnswersFrom(want, calls, i) ==
    IF i > Len(calls) THEN << >>
    ELSE (IF calls[i] = "failure" THEN <<REQUEST_FAILURE>>
          ELSE IF want /\ i = 1 THEN <<REQUEST_SUCCESS>>
          ELSE << >>) \o AnswersFrom(want, calls, i + 1)

\* this step reads a global request outside a key exchange
Answering(pkt) ==
    /\ pkt.b0 = GLOBAL_REQUEST
    /\ rekey = None
    /\ ReadPacket(pkt)

(***************************************************************************)
(* C32: request_success emits REQUEST_SUCCESS only while the session's     *)
(* wants_reply flag is set and clears the flag, so that a second call, or  *)
(* a call for a request that asked for no reply, emits nothing;            *)
(* request_failure emits one REQUEST_FAILURE on every call and clears the  *)
(* flag, whether or not the request asked for a reply and whether or not a *)
(* reply was already sent.  So the replies to one request are a            *)
(* REQUEST_SUCCESS for a first call of request_success when a reply was    *)
(* asked for, and a REQUEST_FAILURE for each call of request_failure, and  *)
(* the flag stays set only if a reply was asked for and no call was made.  *)
(***************************************************************************)
C32_GlobalReplies ==
    [][ \A pkt \in GlobalPackets :
           Answering(pkt) =>
              /\ Answers(History') =
                    Answers(History) \o AnswersFrom(pkt.want_reply, pkt.calls, 1)
              /\ wants_reply' = (pkt.want_reply /\ pkt.calls = << >>) ]_vars

\* a request that asked for a reply was answered by request_success and then
\* by request_failure: both replies are on the wire
C32_Witness ==
    /\ reads = 1
    /\ ~wants_reply
    /\ Answers(wire) = <<REQUEST_SUCCESS, REQUEST_FAILURE>>

\* this step of the bridging task takes the peer's Eof from the channel
TakingEof ==
    /\ handles[1].stream.task = "loop"
    /\ handles[1].inbox # << >>
    /\ Head(handles[1].inbox).kind = "Eof"
    /\ BridgeWait(1)

\* the task has returned
Returned(st) == st.task \in {"ended", "failed"}

(***************************************************************************)
(* C33: when the bridging task takes ChannelMsg::Eof from the peer it      *)
(* sends one zero-length chunk to the stream side (if the stream side is   *)
(* still there to take it) and returns, and posts neither Eof nor Close.   *)
(* Once the task has returned nothing changes any more: whatever the       *)
(* stream side writes stays unforwarded, and the task posts nothing.  So   *)
(* wherever the zero-length chunk of the peer's Eof was passed on, it is   *)
(* the last and only such chunk, the task has ended, and the task has      *)
(* posted nothing but Data: it has not closed the channel.                 *)
(***************************************************************************)
C33_StreamInbound ==
    /\ [][ TakingEof =>
              /\ Returned(handles'[1].stream)
              /\ ~handles[1].stream.dropped =>
                    /\ handles'[1].stream.task = "ended"
                    /\ handles'[1].stream.w_tx =
                          Append(handles[1].stream.w_tx, "Eof")
              /\ handles'[1].stream.posts = handles[1].stream.posts
              /\ receiver' = receiver /\ posted' = posted ]_vars
    /\ [][ Returned(handles[1].stream) =>
              /\ handles'[1].stream.task = handles[1].stream.task
              /\ handles'[1].stream.posts = handles[1].stream.posts
              /\ handles'[1].stream.w_tx = handles[1].stream.w_tx
              /\ handles'[1].stream.r_rx = handles[1].stream.r_rx
              /\ posted'[1] = posted[1] ]_vars
    /\ [](LET st == handles[1].stream
          IN  (\E i \in 1..Len(st.w_tx) : st.w_tx[i] = "Eof") =>
                 /\ st.task = "ended"
                 /\ \A i \in 1..Len(st.w_tx) :
                       st.w_tx[i] = "Eof" <=> i = Len(st.w_tx)
                 /\ \A j \in 1..Len(st.posts) : st.posts[j][1] = "Data"
                 /\ \A i \in 1..Len(receiver) :
                       receiver[i].task = 1 =>
                          receiver[i].kind \notin {"Eof", "Close"})

\* the task forwarded a chunk each way and then took the peer's Eof: the
\* second chunk of the stream side is written after the task has returned
\* and goes nowhere, and the channel is still in the session's table
C33_Witness ==
    /\ pc = "select"
    /\ handles[1].stream.task = "ended"
    /\ handles[1].stream.w_tx = <<"Data", "Eof">>
    /\ handles[1].stream.posts = << <<"Data", 1>> >>
    /\ handles[1].stream.written = <<1, 1>>
    /\ handles[1].stream.r_rx = << >>
    /\ receiver = << >>
    /\ handles[1].id[1] \in DOMAIN channels

\* run never leaves its loop
Running == [](pc = "select")

\* every key exchange comes to its end: rekey is None again and again
RekeysComplete == []<>(rekey = None)

\* the n-th message that task t posts is taken and handled
Taken(t, n) == (posted[t] >= n) ~> (handled[t] >= n)

\* task t, which has sent n messages and finds the mailbox full with its
\* next one, completes that send
SendCompletes(t, n) == (posted[t] = n /\ Len(receiver) = MailboxCap) ~> (posted[t] > n)

(***************************************************************************)
(* C34: under fair scheduling of the select arms and of the senders, if    *)
(* run never leaves its loop and every key exchange completes, then every  *)
(* message posted to the mailbox is eventually taken and handled, and      *)
(* every sender that waits at the full mailbox eventually completes its    *)
(* send.                                                                   *)
(***************************************************************************)
C34_MailboxLiveness ==
    (Running /\ RekeysComplete) =>
        \A t \in Tasks :
           /\ \A n \in 1..MaxMsgs : Taken(t, n)
           /\ \A n \in 0..(MaxMsgs - 1) : SendCompletes(t, n)

\* every message of both tasks has been handled by a loop that still runs,
\* after a key exchange that the peer completed
C34_Witness ==
    /\ pc = "select"
    /\ rekey = None
    /\ kex_done >= 1
    /\ \A t \in Tasks : posted[t] = MaxMsgs /\ handled[t] = MaxMsgs
    /\ receiver = << >>

====
